---- MODULE Spec2Model ----
(***************************************************************************)
(* Model of the smolagent UI wrapper backend:                              *)
(*   - backend/output_parser.py : OutputParser.parse and                   *)
(*     OutputParser.generate_unified_response,                             *)
(*   - backend/agent_wrapper.py : AgentWrapper.run,                        *)
(*   - backend/main.py          : ConnectionManager and websocket_endpoint.*)
(*                                                                         *)
(* Text is modelled as a sequence of tokens.  A token stands for a piece   *)
(* of text that the regular expressions of the parser treat as a unit.     *)
(* Python values whose dynamic type matters are tagged records.            *)
(***************************************************************************)
EXTENDS Integers, Sequences, FiniteSets, TLC

\* ------------------------------------------------------------------------
\* Bounds of the model
\* ------------------------------------------------------------------------
MaxMsgs == 2      \* inbound frames received per connection
MaxEvents == 2    \* length of the event lists given to the aggregator alone
MaxBlocks == 2    \* code blocks in the raw outputs given to the parser alone
MaxTags == 2      \* command tags in the raw outputs given to the parser alone
MaxWrites == 2    \* lines an agent run writes to the streams of the process

\* ------------------------------------------------------------------------
\* Python values
\* ------------------------------------------------------------------------
PNone == [t |-> "none"]
PStr(s) == [t |-> "str", s |-> s]
PInt(n) == [t |-> "int", n |-> n]
PDict(d) == [t |-> "dict", d |-> d]

\* bool(v)
Truthy(v) ==
  CASE v.t = "none" -> FALSE
    [] v.t = "str" -> v.s # <<>>
    [] v.t = "int" -> v.n # 0
    [] v.t = "dict" -> DOMAIN v.d # {}

\* str(v), as an f-string formats a value
PyStr(v) ==
  CASE v.t = "none" -> <<"None">>
    [] v.t = "str" -> v.s
    [] v.t = "int" -> <<"<int>">>
    [] v.t = "dict" -> <<"<dict>">>

\* dict.get(key, default) on a record
Get(d, key, default) == IF key \in DOMAIN d THEN d[key] ELSE default

\* ------------------------------------------------------------------------
\* Tokens
\* ------------------------------------------------------------------------
FenceLang == "[fence py NL]"   \* three backquotes, a language tag, a newline
FenceBare == "[fence NL]"      \* three backquotes and a newline
FenceEnd == "[fence]"          \* three backquotes followed by other text or nothing
Fences == {FenceLang, FenceBare, FenceEnd}
Openers == {FenceLang, FenceBare}

ImgOnDisk == "plot.png"    \* a file name with an image extension, file exists
ImgLong == "long.png"      \* an image file name the file system cannot stat
ImgMissing == "gone.png"   \* an image file name with no file
ImgChart == "chart.png"    \* another file name with an image extension, file exists
ImagesOnDisk == {ImgOnDisk, ImgChart}

ImgData == "data:image/png;base64,AAAA"   \* an embedded base64 data URI
SaveFig == "plt.savefig('plot.png')"      \* code that saves a figure to plot.png
CodeLabel == "Code:[NL]"                  \* a Code: label that ends its line
Indent == "    "                          \* the blanks that indent a line
DrawArrowCall == "draw_arrow(room_name='Kitchen', direction='LEFT')"
ClearArrowsCall == "clear_arrows()"
ClearMapCall == "clear_map()"
DrawArrowSideways == "draw_arrow(room_name='Kitchen', direction='Sideways')"
ArrowTag == "ARROW_COMMAND: room=Kitchen, direction=LEFT"
ArrowTagSideways == "ARROW_COMMAND: room=Kitchen, direction=sideways"
ArrowTagUpward == "ARROW_COMMAND: room=Kitchen, direction=upward"
ArrowTagGarage == "ARROW_COMMAND: room=Garage, direction=up"
ArrowTagSpaced == "ARROW_COMMAND: room= Kitchen, direction=left"
ClearArrowsTag == "CLEAR_ARROWS_COMMAND"
MapTagFlat == "MAP_COMMAND: {\"floorId\":\"2F\",\"rectangles\":[],\"overlays\":[]}"
MapTagFloor1 == "MAP_COMMAND: {\"floorId\":\"1F\",\"rectangles\":[],\"overlays\":[]}"
MapTagRects ==
  "MAP_COMMAND: {\"floorId\":\"2F\",\"rectangles\":[{\"name\":\"Room1\"}],\"overlays\":[]}"
MapTagBad == "MAP_COMMAND: {oops}"
\* a payload that opens more lists than the recursion limit allows
DeepBrackets == "\"a\":[[[[ (2000 opening brackets)"
MapTagDeep == "MAP_COMMAND: {\"a\":[[[[ (2000 opening brackets)}"
MapCommandPrefix == "MAP_COMMAND: "
ClearMapTag == "CLEAR_MAP_COMMAND"

WhiteSpace == {"\n", " ", Indent}

\* str.strip()
RECURSIVE LStrip(_)
LStrip(s) == IF s # <<>> /\ Head(s) \in WhiteSpace THEN LStrip(Tail(s)) ELSE s
RECURSIVE RStrip(_)
RStrip(s) ==
  IF s # <<>> /\ s[Len(s)] \in WhiteSpace THEN RStrip(SubSeq(s, 1, Len(s) - 1)) ELSE s
Strip(s) == RStrip(LStrip(s))

\* the smallest index j >= i with P(s[j]), or 0
FirstFrom(s, i, S) ==
  IF \E j \in i..Len(s) : s[j] \in S
  THEN CHOOSE j \in i..Len(s) : s[j] \in S /\ \A k \in i..(j - 1) : s[k] \notin S
  ELSE 0

Contains(s, tok) == \E i \in 1..Len(s) : s[i] = tok

\* ------------------------------------------------------------------------
\* output_parser.py
\* ------------------------------------------------------------------------
room_names == <<"Room1", "Room2", "Bathroom", "Kitchen", "Toilet", "Level1", "Level2">>

\* re.findall(code_pattern, s, re.DOTALL): the (language, code) pairs of the
\* blocks that open with a fence, an optional language tag and a newline and
\* close at the next three backquotes
RECURSIVE FencedFrom(_, _)
FencedFrom(s, i) ==
  IF i > Len(s) THEN <<>>
  ELSE IF s[i] \in Openers /\ FirstFrom(s, i + 1, Fences) # 0
       THEN LET j == FirstFrom(s, i + 1, Fences)
            IN  <<[language |-> IF s[i] = FenceLang THEN <<"py">> ELSE <<>>,
                   code |-> SubSeq(s, i + 1, j - 1)]>> \o FencedFrom(s, j + 1)
       ELSE FencedFrom(s, i + 1)
FencedBlocks(s) == FencedFrom(s, 1)

\* re.findall(simple_code_pattern, s, re.DOTALL): the bodies of the blocks
\* that open with a fence directly followed by a newline
RECURSIVE SimpleFencedFrom(_, _)
SimpleFencedFrom(s, i) ==
  IF i > Len(s) THEN <<>>
  ELSE IF s[i] = FenceBare /\ FirstFrom(s, i + 1, Fences) # 0
       THEN LET j == FirstFrom(s, i + 1, Fences)
            IN  <<SubSeq(s, i + 1, j - 1)>> \o SimpleFencedFrom(s, j + 1)
       ELSE SimpleFencedFrom(s, i + 1)
SimpleFencedBlocks(s) == SimpleFencedFrom(s, 1)

CodeEvent(language, code) ==
  [type |-> "code", content |-> PStr(Strip(code)),
   language |-> IF language # <<>> THEN language ELSE <<"python">>]

\* the events of the matches whose stripped body is not empty
RECURSIVE FencedEvents(_)
FencedEvents(ms) ==
  IF ms = <<>> THEN <<>>
  ELSE (IF Strip(Head(ms).code) # <<>>
        THEN <<CodeEvent(Head(ms).language, Head(ms).code)>> ELSE <<>>)
       \o FencedEvents(Tail(ms))

\* the loop over simple_matches: add a body unless empty or already present
RECURSIVE AddSimple(_, _)
AddSimple(code_blocks, ms) ==
  IF ms = <<>> THEN code_blocks
  ELSE LET c == Strip(Head(ms))
       IN  AddSimple(IF c # <<>> /\ ~\E k \in 1..Len(code_blocks) :
                                       code_blocks[k].content = PStr(c)
                     THEN Append(code_blocks, CodeEvent(<<>>, c))
                     ELSE code_blocks,
                     Tail(ms))

\* the loop over response['code_steps']
StepEvents(code_steps) ==
  [i \in 1..Len(code_steps) |->
     [type |-> "code",
      content |-> PStr(Get(code_steps[i], "code", <<>>)),
      step |-> Get(code_steps[i], "step", <<"Step ", ToString(i)>>),
      language |-> <<"python">>]]

\* re.findall(code_after_label_pattern, s, re.MULTILINE): after a Code: label
\* and the white space up to the last newline that follows it, the longest run
\* of indented lines.  The tokens that end with a newline end their line.
EndsLine == {"\n", FenceLang, FenceBare, CodeLabel}
\* the index past the line whose text goes on at i
RECURSIVE LineRest(_, _)
LineRest(s, i) ==
  IF i > Len(s) THEN i
  ELSE IF s[i] \in EndsLine THEN i + 1 ELSE LineRest(s, i + 1)
\* the index past the indented line that starts at i, or 0 when none does: the
\* line starts with blanks and holds at least one more character
IndentedLineEnd(s, i) ==
  IF i <= Len(s) /\ s[i] = Indent THEN LineRest(s, i + 1)
  ELSE IF i < Len(s) /\ s[i] = " " /\ s[i + 1] # "\n" THEN LineRest(s, i + 1)
  ELSE 0
RECURSIVE IndentedRun(_, _)
IndentedRun(s, i) ==
  IF IndentedLineEnd(s, i) # 0
  THEN SubSeq(s, i, IndentedLineEnd(s, i) - 1) \o IndentedRun(s, IndentedLineEnd(s, i))
  ELSE <<>>
\* the index past the white space that ends with the last newline after a label
SkipBlank(s, i) ==
  LET ends == {k \in i..Len(s) : s[k] = "\n" /\ \A j \in i..k : s[j] \in WhiteSpace}
  IN  IF ends = {} THEN i ELSE 1 + CHOOSE k \in ends : \A j \in ends : j <= k
RECURSIVE LabelledFrom(_, _)
LabelledFrom(s, i) ==
  IF i > Len(s) THEN <<>>
  ELSE IF s[i] = CodeLabel /\ IndentedRun(s, SkipBlank(s, i + 1)) # <<>>
       THEN LET run == IndentedRun(s, SkipBlank(s, i + 1))
            IN  <<run>> \o LabelledFrom(s, SkipBlank(s, i + 1) + Len(run))
       ELSE LabelledFrom(s, i + 1)
LabelledBlocks(s) == LabelledFrom(s, 1)

\* the logs are dicts when they come from _run_agent_sync, and only str
\* entries are looked at: the loop over response['logs'] adds nothing
_extract_code_blocks(response) ==
  LET steps == IF "code_steps" \in DOMAIN response
               THEN StepEvents(response.code_steps) ELSE <<>>
      raw_output == Get(response, "raw_output", <<>>)
  IN  IF raw_output # <<>>
      THEN AddSimple(AddSimple(steps \o FencedEvents(FencedBlocks(raw_output)),
                               LabelledBlocks(raw_output)),
                     SimpleFencedBlocks(raw_output))
      ELSE steps

_extract_code_from_text(text) == FencedEvents(FencedBlocks(text))

\* --- images ---
\* the path captured by savefig_pattern / save_pattern in a piece of code
SavedPaths(code) == {ImgOnDisk : i \in {k \in 1..Len(code) : code[k] = SaveFig}}
\* the matches of image_path_pattern in raw_output
RawPaths(raw_output) ==
  {raw_output[i] : i \in {k \in 1..Len(raw_output) :
                             raw_output[k] \in {ImgOnDisk, ImgChart, ImgLong, ImgMissing}}}
\* the set image_paths
ImagePaths(raw_output, response) ==
  (IF "code_steps" \in DOMAIN response
   THEN UNION {SavedPaths(Get(response.code_steps[i], "code", <<>>)) :
                 i \in 1..Len(response.code_steps)}
   ELSE {})
  \cup RawPaths(raw_output)

\* the orders in which a for loop can iterate over a Python set
Orders(S) == {o \in [1..Cardinality(S) -> S] : \A x \in S : \E i \in DOMAIN o : o[i] = x}

\* re.findall(base64_pattern, raw_output)
RECURSIVE Base64Images(_)
Base64Images(raw_output) ==
  IF raw_output = <<>> THEN <<>>
  ELSE (IF Head(raw_output) = ImgData
        THEN <<[type |-> "image", content |-> PStr(<<"AAAA">>), format |-> <<"png">>]>>
        ELSE <<>>) \o Base64Images(Tail(raw_output))

\* the loop over image_paths in the order the set iterates
RECURSIVE FileImages(_)
FileImages(order) ==
  IF order = <<>> THEN <<>>
  ELSE (IF Head(order) \in ImagesOnDisk
        THEN <<[type |-> "image", content |-> PStr(<<"b64:", Head(order)>>),
                format |-> <<"png">>, path |-> <<Head(order)>>]>>
        ELSE <<>>) \o FileImages(Tail(order))

\* env.order: the iteration order of image_paths; env.stat_raises: whether
\* Path.exists() raises OSError for a name the file system cannot stat
_extract_images(raw_output, response, env) ==
  IF ImgLong \in ImagePaths(raw_output, response) /\ env.stat_raises
  THEN [raised |-> "OSError", value |-> <<>>]
  ELSE [raised |-> "", value |-> FileImages(env.order) \o Base64Images(raw_output)]

\* --- rooms ---
\* the room names a token holds as a whole word, compared in lower case
RoomsIn(tok) ==
  CASE tok \in {"Kitchen", "kitchen", ArrowTag, ArrowTagSideways, ArrowTagUpward,
                ArrowTagSpaced, DrawArrowCall, DrawArrowSideways} -> {"Kitchen"}
    [] tok = "Room1" -> {"Room1"}
    [] OTHER -> {}
MentionedRooms(text) == UNION {RoomsIn(text[i]) : i \in 1..Len(text)}

RECURSIVE SelectRooms(_, _)
SelectRooms(names, S) ==
  IF names = <<>> THEN <<>>
  ELSE (IF Head(names) \in S THEN <<Head(names)>> ELSE <<>>) \o SelectRooms(Tail(names), S)

_extract_room_highlights(text) ==
  IF text = <<>> THEN <<>> ELSE SelectRooms(room_names, MentionedRooms(text))

\* --- arrows ---
ArrowEvent(room, direction) ==
  [type |-> "arrow", content |-> PDict([room |-> room, direction |-> direction])]

\* the (room_name, direction) pairs arrow_pattern finds in a token, direction
\* as written: the pattern takes up, down, left or right at the start of the
\* direction, in any case
TagMatch(tok) ==
  CASE tok = ArrowTag -> <<[room_name |-> "Kitchen", direction |-> "LEFT"]>>
    [] tok = ArrowTagUpward -> <<[room_name |-> "Kitchen", direction |-> "up"]>>
    [] tok = ArrowTagGarage -> <<[room_name |-> "Garage", direction |-> "up"]>>
    [] tok = ArrowTagSpaced -> <<[room_name |-> " Kitchen", direction |-> "left"]>>
    [] OTHER -> <<>>
\* the pairs draw_arrow_call_pattern finds in a token: the direction is any
\* quoted text
CallMatch(tok) ==
  CASE tok = DrawArrowCall -> <<[room_name |-> "Kitchen", direction |-> "LEFT"]>>
    [] tok = DrawArrowSideways -> <<[room_name |-> "Kitchen", direction |-> "Sideways"]>>
    [] OTHER -> <<>>
\* re.findall(pattern, s, re.IGNORECASE), pattern being arrow_pattern when tok
\* is ArrowTag and draw_arrow_call_pattern when it is DrawArrowCall
RECURSIVE ArrowMatches(_, _)
ArrowMatches(s, tok) ==
  IF s = <<>> THEN <<>>
  ELSE (IF tok = ArrowTag THEN TagMatch(Head(s)) ELSE CallMatch(Head(s)))
       \o ArrowMatches(Tail(s), tok)

\* str.lower()
Lower(d) ==
  CASE d = "LEFT" -> "left" [] d = "RIGHT" -> "right" [] d = "UP" -> "up"
    [] d = "DOWN" -> "down" [] d = "Sideways" -> "sideways" [] OTHER -> d

\* room_name.strip()
StripName(room_name) == IF room_name = " Kitchen" THEN "Kitchen" ELSE room_name

\* the loop that appends every match
RECURSIVE AppendArrows(_, _)
AppendArrows(arrows, ms) ==
  IF ms = <<>> THEN arrows
  ELSE AppendArrows(Append(arrows, ArrowEvent(StripName(Head(ms).room_name),
                                              Lower(Head(ms).direction))),
                    Tail(ms))

\* the loop that appends a match unless an arrow has the room name as matched
\* and the lowered direction
RECURSIVE AppendNewArrows(_, _)
AppendNewArrows(arrows, ms) ==
  IF ms = <<>> THEN arrows
  ELSE LET m == Head(ms)
           e == ArrowEvent(StripName(m.room_name), Lower(m.direction))
       IN  AppendNewArrows(IF \E k \in 1..Len(arrows) :
                                 /\ arrows[k].content.d.room = m.room_name
                                 /\ arrows[k].content.d.direction = Lower(m.direction)
                           THEN arrows ELSE Append(arrows, e),
                           Tail(ms))

RECURSIVE StepArrows(_, _)
StepArrows(arrows, code_steps) ==
  IF code_steps = <<>> THEN arrows
  ELSE StepArrows(AppendArrows(arrows,
                               ArrowMatches(Get(Head(code_steps), "code", <<>>), DrawArrowCall)),
                  Tail(code_steps))

Combined(raw_output, text_content) == raw_output \o <<"\n">> \o text_content

_extract_arrows(raw_output, text_content, agent_response) ==
  LET fromSteps == IF "code_steps" \in DOMAIN agent_response
                   THEN StepArrows(<<>>, agent_response.code_steps) ELSE <<>>
      combined_output == Combined(raw_output, text_content)
  IN  AppendNewArrows(AppendNewArrows(fromSteps, ArrowMatches(combined_output, ArrowTag)),
                      ArrowMatches(combined_output, DrawArrowCall))

\* --- clear commands ---
StepsContain(agent_response, tok) ==
  /\ "code_steps" \in DOMAIN agent_response
  /\ \E i \in 1..Len(agent_response.code_steps) :
        Contains(Get(agent_response.code_steps[i], "code", <<>>), tok)

\* mutant: one clear_arrows command per CLEAR_ARROWS_COMMAND tag
ClearArrowsPerTag(raw_output, text_content, agent_response) ==
  LET combined_output == Combined(raw_output, text_content)
  IN  [i \in 1..Cardinality({k \in 1..Len(combined_output) :
                               combined_output[k] = ClearArrowsTag}) |->
         [type |-> "clear_arrows", content |-> PDict(<<>>)]]

\* <<>> stands for None, <<e>> for the command e
_extract_clear_arrows(raw_output, text_content, agent_response) ==
  IF StepsContain(agent_response, ClearArrowsCall)
     \/ Contains(Combined(raw_output, text_content), ClearArrowsTag)
  THEN <<[type |-> "clear_arrows", content |-> PDict(<<>>)]>>
  ELSE <<>>

_extract_clear_map_command(raw_output, text_content, agent_response) ==
  IF StepsContain(agent_response, ClearMapCall)
     \/ Contains(Combined(raw_output, text_content), ClearMapTag)
  THEN <<[type |-> "clear_map", content |-> PDict(<<>>)]>>
  ELSE <<>>

\* --- map command ---
MapTags == {MapTagFlat, MapTagFloor1, MapTagRects, MapTagBad, MapTagDeep}
\* the text that follows "MAP_COMMAND: " in a tag, cut at its braces
Payload(tag) ==
  CASE tag = MapTagFlat ->
         <<"{", "\"floorId\":\"2F\",\"rectangles\":[],\"overlays\":[]", "}">>
    [] tag = MapTagFloor1 ->
         <<"{", "\"floorId\":\"1F\",\"rectangles\":[],\"overlays\":[]", "}">>
    [] tag = MapTagRects ->
         <<"{", "\"floorId\":\"2F\",\"rectangles\":[", "{", "\"name\":\"Room1\"", "}",
           "],\"overlays\":[]", "}">>
    [] tag = MapTagBad -> <<"{", "oops", "}">>
    [] tag = MapTagDeep -> <<"{", DeepBrackets, "}">>
\* the group of map_command_pattern: from the brace to the first closing brace
Captured(text) == SubSeq(text, 1, FirstFrom(text, 1, {"}"}))
\* re.findall(map_command_pattern, s, re.DOTALL): the captured JSON texts, of
\* the tags written as one token and of the tags written out as show_map
\* writes them; a match needs the opening brace and a closing one
RECURSIVE MapMatches(_)
MapMatches(s) ==
  IF s = <<>> THEN <<>>
  ELSE IF Head(s) \in MapTags
       THEN <<Captured(Payload(Head(s)))>> \o MapMatches(Tail(s))
       ELSE IF /\ Head(s) = MapCommandPrefix
               /\ Len(s) >= 2
               /\ s[2] = "{"
               /\ FirstFrom(s, 2, {"}"}) # 0
            THEN <<SubSeq(s, 2, FirstFrom(s, 2, {"}"}))>>
                 \o MapMatches(SubSeq(s, FirstFrom(s, 2, {"}"}) + 1, Len(s)))
            ELSE MapMatches(Tail(s))

\* agent_wrapper.py, show_map: the arguments of a call.  The comma and
\* semicolon separated strings are given as the lists their split and strip
\* produce, an overlay entry as its name and the position dict built from its
\* location; coordinates are kept as the text float() and json.dumps give them.
RoomPosition == [type |-> "rectangle", name |-> "Room1"]
CoordinatePosition == [type |-> "coordinate", x |-> "50.5", y |-> "30.2"]
ShowMapCalls ==
  [floor_id : {"1F", "2F"},
   highlight_rooms : {<<>>, <<"Room1">>, <<"Room1", "Kitchen">>},
   room_colors : {<<>>, <<"#FF0000">>},
   show_names : BOOLEAN,
   bitmap_overlays : {<<>>, <<[name |-> "arrow_up", position |-> RoomPosition]>>,
                      <<[name |-> "person", position |-> CoordinatePosition]>>},
   text_overlays : {<<>>, <<[name |-> "Exit", position |-> RoomPosition]>>}]
\* datetime.utcnow().isoformat() + "Z" at the time of the call
Timestamps == {"2025-01-01T00:00:00Z", "2025-01-01T00:00:01.5Z"}

\* the rectangles list; the opacities 1.0 and 0.3 in tenths
ShowMapRectangles(call) ==
  [i \in 1..Len(call.highlight_rooms) |->
     [name |-> call.highlight_rooms[i],
      color |-> IF i <= Len(call.room_colors) THEN call.room_colors[i] ELSE "#FFD700",
      strokeOpacity |-> 10, fillOpacity |-> 3, showName |-> call.show_names]]
\* the overlays list: the bitmaps, then the texts
ShowMapOverlays(call) ==
  [i \in 1..Len(call.bitmap_overlays) |->
     [type |-> "bitmap", bitmapId |-> call.bitmap_overlays[i].name,
      position |-> call.bitmap_overlays[i].position]]
  \o [i \in 1..Len(call.text_overlays) |->
        [type |-> "text", text |-> call.text_overlays[i].name, fontSize |-> 14,
         color |-> "#000000", position |-> call.text_overlays[i].position]]
map_command(call, timestamp) ==
  [floorId |-> call.floor_id, timestamp |-> timestamp,
   rectangles |-> ShowMapRectangles(call), overlays |-> ShowMapOverlays(call)]

\* json.dumps of the values show_map builds, cut at the braces
Tenths(n) == IF n = 10 THEN "1.0" ELSE IF n = 3 THEN "0.3" ELSE ToString(n)
DumpsRectangle(r) ==
  <<"{", "\"name\": \"", r.name, "\", \"color\": \"", r.color, "\", \"strokeOpacity\": ",
    Tenths(r.strokeOpacity), ", \"fillOpacity\": ", Tenths(r.fillOpacity),
    ", \"showName\": ", IF r.showName THEN "true" ELSE "false", "}">>
DumpsPosition(p) ==
  IF p.type = "rectangle"
  THEN <<"{", "\"type\": \"rectangle\", \"name\": \"", p.name, "\"", "}">>
  ELSE <<"{", "\"type\": \"coordinate\", \"x\": ", p.x, ", \"y\": ", p.y, "}">>
DumpsOverlay(o) ==
  (IF o.type = "bitmap"
   THEN <<"{", "\"type\": \"bitmap\", \"bitmapId\": \"", o.bitmapId,
          "\", \"position\": ">>
   ELSE <<"{", "\"type\": \"text\", \"text\": \"", o.text, "\", \"fontSize\": ",
          ToString(o.fontSize), ", \"color\": \"", o.color, "\", \"position\": ">>)
  \o DumpsPosition(o.position) \o <<"}">>
RECURSIVE DumpsRectangles(_)
DumpsRectangles(l) ==
  IF l = <<>> THEN <<>>
  ELSE DumpsRectangle(Head(l))
       \o (IF Tail(l) # <<>> THEN <<", ">> ELSE <<>>) \o DumpsRectangles(Tail(l))
RECURSIVE DumpsOverlays(_)
DumpsOverlays(l) ==
  IF l = <<>> THEN <<>>
  ELSE DumpsOverlay(Head(l))
       \o (IF Tail(l) # <<>> THEN <<", ">> ELSE <<>>) \o DumpsOverlays(Tail(l))
JsonDumps(cmd) ==
  <<"{", "\"floorId\": \"", cmd.floorId, "\", \"timestamp\": \"", cmd.timestamp,
    "\", \"rectangles\": [">> \o DumpsRectangles(cmd.rectangles)
  \o <<"], \"overlays\": [">> \o DumpsOverlays(cmd.overlays) \o <<"]", "}">>
\* the string show_map returns
show_map(call, timestamp) ==
  <<MapCommandPrefix>> \o JsonDumps(map_command(call, timestamp))

ShowMapCommands ==
  {map_command(call, timestamp) : call \in ShowMapCalls, timestamp \in Timestamps}

\* json.loads of a captured text: the value, or the name of the exception.
\* A text json.dumps wrote in full reads back as the value dumped; a text
\* nested deeper than the interpreter's recursion limit raises RecursionError,
\* any other text here is not JSON and raises JSONDecodeError.
JsonLoads(text) ==
  IF /\ Len(text) >= 2
     /\ text[2] = "\"floorId\": \""
     /\ \E cmd \in ShowMapCommands : JsonDumps(cmd) = text
  THEN [raised |-> "",
        value |-> CHOOSE cmd \in ShowMapCommands : JsonDumps(cmd) = text]
  ELSE CASE text = Payload(MapTagFlat) ->
              [raised |-> "",
               value |-> [floorId |-> "2F", rectangles |-> <<>>, overlays |-> <<>>]]
         [] text = Payload(MapTagFloor1) ->
              [raised |-> "",
               value |-> [floorId |-> "1F", rectangles |-> <<>>, overlays |-> <<>>]]
         [] text = Payload(MapTagRects) ->
              [raised |-> "",
               value |-> [floorId |-> "2F", rectangles |-> <<[name |-> "Room1"]>>,
                          overlays |-> <<>>]]
         [] text = Payload(MapTagDeep) -> [raised |-> "RecursionError", value |-> <<>>]
         [] OTHER -> [raised |-> "JSONDecodeError", value |-> <<>>]

\* only json.JSONDecodeError is caught
_extract_map_command(raw_output, text_content, agent_response) ==
  LET matches == MapMatches(Combined(raw_output, text_content))
      map_data == JsonLoads(matches[Len(matches)])
  IN  IF matches = <<>> THEN [raised |-> "", value |-> <<>>]
      ELSE IF map_data.raised = ""
           THEN [raised |-> "",
                 value |-> <<[type |-> "map", content |-> PDict(map_data.value)]>>]
           ELSE IF map_data.raised = "JSONDecodeError"
                THEN [raised |-> "", value |-> <<>>]
                ELSE [raised |-> map_data.raised, value |-> <<>>]

\* --- parse ---
\* dict.get("error") is truthy
ErrorFlag(agent_response) == "error" \in DOMAIN agent_response /\ agent_response.error

\* mutant: the text event is appended before the code events
CodeAfterText(code, text) == text \o code

\* the list outputs once the code events were added and the text event appended
CodeThenText(code, text) == code \o text

\* mutant: the map event is appended before the arrows
CollectMapFirst(outputs, images, highlight, arrows, clear_arrows, map, clear_map) ==
  outputs \o images \o highlight \o map \o arrows \o clear_arrows \o clear_map

\* the list outputs after the later extend and append calls of parse, in their
\* order
Collect(outputs, images, highlight, arrows, clear_arrows, map, clear_map) ==
  outputs \o images \o highlight \o arrows \o clear_arrows \o map \o clear_map

parse(agent_response, env) ==
  LET text_content == Get(agent_response, "text", <<>>)
      raw_output == Get(agent_response, "raw_output", <<>>)
      code == _extract_code_blocks(agent_response)
              \o (IF text_content # <<>> THEN _extract_code_from_text(text_content) ELSE <<>>)
      text == IF text_content # <<>> /\ ~ErrorFlag(agent_response)
              THEN <<[type |-> "text", content |-> PStr(text_content)]>>
              ELSE IF ErrorFlag(agent_response)
                   THEN <<[type |-> "error", content |-> PStr(text_content)]>>
                   ELSE <<>>
      images == _extract_images(raw_output, agent_response, env)
      highlighted_rooms == _extract_room_highlights(text_content)
      map_command_obj == _extract_map_command(raw_output, text_content, agent_response)
  IN  IF images.raised # "" THEN [raised |-> images.raised, value |-> <<>>]
      ELSE IF map_command_obj.raised # ""
      THEN [raised |-> map_command_obj.raised, value |-> <<>>]
      ELSE [raised |-> "",
            value |-> Collect(CodeThenText(code, text), images.value,
                        IF highlighted_rooms # <<>>
                        THEN <<[type |-> "highlight_room",
                                content |-> PDict([rooms |-> highlighted_rooms])]>>
                        ELSE <<>>,
                        _extract_arrows(raw_output, text_content, agent_response),
                        _extract_clear_arrows(raw_output, text_content, agent_response),
                        map_command_obj.value,
                        _extract_clear_map_command(raw_output, text_content,
                                                   agent_response))]

\* --- generate_unified_response ---
Placeholder == <<"Response generated">>

\* mutant: the appended block carries no step label
CodeAppendixUnlabelled(output, content) ==
  <<"\n\n", FenceEnd>> \o Get(output, "language", <<"python">>) \o <<"\n">>
  \o PyStr(content) \o <<"\n", FenceEnd>>

\* the f-string appended to a non-empty message
CodeAppendix(output, content) ==
  <<"\n\n**Code (">> \o Get(output, "step", <<"N/A">>) \o <<")**:\n", FenceEnd>>
  \o Get(output, "language", <<"python">>) \o <<"\n">> \o PyStr(content)
  \o <<"\n", FenceEnd>>

\* the f-string that becomes the message when it is empty
CodeOnly(output, content) ==
  <<"Code generated:\n", FenceEnd>> \o Get(output, "language", <<"python">>)
  \o <<"\n">> \o PyStr(content) \o <<"\n", FenceEnd>>

\* mutant: the rectangles of highlighted rooms hide the room name
HighlightRectangleUnnamed(room) ==
  [name |-> room, color |-> "#0066ff", strokeOpacity |-> 10, fillOpacity |-> 3,
   showName |-> FALSE]

\* the rectangle of a highlighted room; the opacities 1.0 and 0.3 in tenths
HighlightRectangle(room) ==
  [name |-> room, color |-> "#0066ff", strokeOpacity |-> 10, fillOpacity |-> 3,
   showName |-> TRUE]

Map2d(floor, timestamp, rectangles, overlays) ==
  [floor |-> floor,
   area |-> [type |-> "map",
             content |-> [timestamp |-> timestamp, rectangles |-> rectangles,
                          overlays |-> overlays]]]

\* mutant: a text event leaves a message that is already set
TextMessageKeepsFirst(message, content) == IF Truthy(message) THEN message ELSE content

\* unified["message"] = content
TextMessage(message, content) == content

\* mutant: every image gets the generic title
ImageEntryUntitled(output, content) ==
  [title |-> <<"Generated Image">>, data |-> content,
   type |-> Get(output, "format", <<"png">>)]

\* the dict appended to unified["images"]
ImageEntry(output, content) ==
  [title |-> Get(output, "path", <<"Generated Image">>),
   data |-> content,
   type |-> Get(output, "format", <<"png">>)]

\* mutant: a highlight_room event is applied whatever 2d_map holds
MapUnsetIgnored(unified) == TRUE

\* "2d_map" not in unified
MapUnset(unified) == "2d_map" \notin DOMAIN unified

\* one iteration of the loop over parsed_outputs; acc.raised holds the name of
\* the exception that ended the call, or "" while none has
FoldStep(acc, output) ==
  LET output_type == Get(output, "type", "")
      content == Get(output, "content", PNone)
      unified == acc.unified
  IN  IF acc.raised # "" THEN acc
      ELSE CASE output_type = "text" ->
                  [acc EXCEPT !.unified.message = TextMessage(@, content)]
             [] output_type = "code" ->
                  IF Truthy(unified.message)
                  THEN IF unified.message.t = "str"
                       THEN [acc EXCEPT !.unified.message =
                                          PStr(@.s \o CodeAppendix(output, content))]
                       ELSE [acc EXCEPT !.raised = "TypeError"]
                  ELSE [acc EXCEPT !.unified.message = PStr(CodeOnly(output, content))]
             [] output_type = "image" ->
                  LET image == ImageEntry(output, content)
                  IN  IF "images" \in DOMAIN unified
                      THEN [acc EXCEPT !.unified.images = Append(@, image)]
                      ELSE [acc EXCEPT !.unified = @ @@ ("images" :> <<image>>)]
             [] output_type = "map" ->
                  IF content.t = "dict"
                  THEN LET m == Map2d(Get(content.d, "floorId", "1F"),
                                      Get(content.d, "timestamp", ""),
                                      Get(content.d, "rectangles", <<>>),
                                      Get(content.d, "overlays", <<>>))
                       IN  [acc EXCEPT !.unified =
                              ("2d_map" :> m) @@ @]
                  ELSE acc
             [] output_type = "highlight_room" ->
                  IF content.t # "dict" THEN [acc EXCEPT !.raised = "AttributeError"]
                  ELSE LET rooms == Get(content.d, "rooms", <<>>)
                       IN  IF rooms # <<>> /\ MapUnset(unified)
                           THEN [acc EXCEPT !.unified = ("2d_map" :>
                                   Map2d("1F", "",
                                         [i \in 1..Len(rooms) |-> HighlightRectangle(rooms[i])],
                                         <<>>)) @@ @]
                           ELSE acc
             [] OTHER -> acc

RECURSIVE Fold(_, _)
Fold(acc, parsed_outputs) ==
  IF parsed_outputs = <<>> THEN acc
  ELSE Fold(FoldStep(acc, Head(parsed_outputs)), Tail(parsed_outputs))

\* the message after the loop: agent_response.get("text", "Response generated")
\* when the folded message is falsy
FinalMessage(message, agent_response) ==
  IF ~Truthy(message)
  THEN PStr(Get(agent_response, "text", Placeholder))
  ELSE message

\* the returned list, or the exception raised
generate_unified_response(agent_response, parsed_outputs) ==
  LET acc == Fold([unified |-> [message |-> PStr(<<>>), agent |-> "smolAgent"],
                   raised |-> ""],
                  parsed_outputs)
  IN  IF acc.raised # "" THEN [raised |-> acc.raised, value |-> <<>>]
      ELSE [raised |-> "",
            value |-> <<[acc.unified EXCEPT !.message = FinalMessage(@, agent_response)]>>]

\* the environments one call of parse can meet
Envs(agent_response) ==
  [order : Orders(ImagePaths(Get(agent_response, "raw_output", <<>>), agent_response)),
   stat_raises : BOOLEAN]

\* ------------------------------------------------------------------------
\* agent_wrapper.py
\* ------------------------------------------------------------------------
\* what the agent run inside the executor comes to: the final answer, the
\* captured output and the python_interpreter steps, or an exception
AgentOutcomes ==
  { [kind |-> "ok", result |-> <<"w">>, output_text |-> <<FenceLang, "x", FenceEnd>>,
     code_steps |-> <<[code |-> <<"x">>, step |-> <<"Step 1">>]>>],
    [kind |-> "ok", result |-> <<"Kitchen">>, output_text |-> <<MapTagFlat, ImgLong>>,
     code_steps |-> <<>>],
    [kind |-> "raise", exc |-> <<"boom">>],
    [kind |-> "raise", exc |-> <<"bad code:", FenceLang, "x", FenceEnd>>] }

\* the dict _run_agent_sync returns (the keys parse reads)
_run_agent_sync(o) ==
  [text |-> IF o.result # <<>> THEN o.result ELSE o.output_text,
   raw_output |-> o.output_text,
   code_steps |-> o.code_steps]

\* AgentWrapper.run: agent is self.agent is not None, o the outcome of the
\* run in the executor
run(agent, user_input, o) ==
  IF ~agent
  THEN [text |-> <<"Echo (mock mode): ">> \o user_input, raw_output |-> user_input]
  ELSE IF o.kind = "ok" THEN _run_agent_sync(o)
       ELSE [text |-> <<"Error running agent: ">> \o o.exc,
             raw_output |-> o.exc,
             error |-> TRUE]

\* ------------------------------------------------------------------------
\* main.py: the state of the process and of each websocket_endpoint call
\* ------------------------------------------------------------------------
Conns == {"A", "B"}

\* what the client puts in a text frame: a JSON object with or without a
\* "message" key, or text that is not JSON
Inbound ==
  { [json |-> TRUE, message |-> <<MapTagFlat, "Kitchen">>],
    [json |-> TRUE],
    [json |-> FALSE] }


VARIABLES
  agent,               \* agent_wrapper.agent is not None
  map_loaded,          \* map_manager and map_manager.map_definition
  active_connections,  \* manager.active_connections
  transport,           \* per connection: "open" or "closed" (the client's side)
  pc,                  \* per connection: where websocket_endpoint stands
  received,            \* per connection: inbound frames received so far
  user_message,        \* per connection: the local user_message
  agent_response,      \* per connection: the local agent_response
  parsed_outputs,      \* per connection: the local parsed_outputs
  unified_response,    \* per connection: the local unified_response
  next_output,         \* per connection: position of the loop over parsed_outputs
  frames,              \* per connection: frames sent since the last receive
  hist,                \* per connection: what happened so far (history)
  fold_in,             \* aggregator alone: the arguments of the call
  fold_out,            \* aggregator alone: what the call returned
  parse_in,            \* parser alone: the agent_response given to parse
  parse_out,           \* parser alone: what the call returned
  sys_stdout,          \* agent runs alone: the stream sys.stdout names
  sys_stderr,          \* agent runs alone: the stream sys.stderr names
  capture,             \* agent runs alone: per run, what its two StringIO hold
  worker               \* agent runs alone: per run, the locals of _run_agent_sync

sessionVars == <<agent, map_loaded, active_connections, transport, pc, received,
                 user_message, agent_response, parsed_outputs, unified_response,
                 next_output, frames, hist>>
foldVars == <<fold_in, fold_out>>
parseVars == <<parse_in, parse_out>>
streamVars == <<sys_stdout, sys_stderr, capture, worker>>
vars == <<agent, map_loaded, active_connections, transport, pc, received,
          user_message, agent_response, parsed_outputs, unified_response,
          next_output, frames, hist, fold_in, fold_out, parse_in, parse_out,
          sys_stdout, sys_stderr, capture, worker>>

NoResponse == [text |-> <<>>]
NoFold == [agent_response |-> NoResponse, parsed_outputs |-> <<>>]
NoResult == [called |-> FALSE, raised |-> "", value |-> <<>>]

\* hist[c]: first_frame, the type of the first frame sent on the connection;
\* map_defs, how many map_definition frames were sent; disconnects, how many
\* times manager.disconnect ran; invocations, agent runs started for the
\* request; in_flight, agent runs started and not yet returned; raised, the
\* step of the request that raised and exc its exception; agent_failed, the
\* run raised; send_failed, a send on the connection has failed, which marks
\* the WebSocket object closed; outcome, how the last request ended
InitHist ==
  [first_frame |-> "", map_defs |-> 0, disconnects |-> 0, invocations |-> 0,
   in_flight |-> 0, raised |-> "", exc |-> "", agent_failed |-> FALSE,
   send_failed |-> FALSE, outcome |-> ""]

\* ------------------------------------------------------------------------
\* agent_wrapper.py, _run_agent_sync: the streams of the process and the
\* runs the executor's threads make, one per connection
\* ------------------------------------------------------------------------
\* a stream object: the one the process started with, or the StringIO a run made
Original == <<"original", "">>
StdoutCapture(t) == <<"stdout_capture", t>>
StderrCapture(t) == <<"stderr_capture", t>>

\* the locals of a run that has not started: at is the statement it stands at
NewWorker ==
  [at |-> "save_stdout", old_stdout |-> Original, old_stderr |-> Original,
   written |-> 0, stdout_text |-> <<>>, stderr_text |-> <<>>, raw_output |-> <<>>]

InitRuns ==
  /\ sys_stdout = Original
  /\ sys_stderr = Original
  /\ capture = [t \in Conns |-> [stdout |-> <<>>, stderr |-> <<>>]]
  /\ worker = [t \in Conns |-> NewWorker]

\* no run is made: every worker has returned without a line of output
NoRuns ==
  /\ sys_stdout = Original
  /\ sys_stderr = Original
  /\ capture = [t \in Conns |-> [stdout |-> <<>>, stderr |-> <<>>]]
  /\ worker = [t \in Conns |-> [NewWorker EXCEPT !.at = "done"]]

Init ==
  /\ agent \in BOOLEAN
  /\ map_loaded \in BOOLEAN
  /\ active_connections = <<>>
  /\ transport = [c \in Conns |-> "open"]
  /\ pc = [c \in Conns |-> "connect"]
  /\ received = [c \in Conns |-> 0]
  /\ user_message = [c \in Conns |-> <<>>]
  /\ agent_response = [c \in Conns |-> NoResponse]
  /\ parsed_outputs = [c \in Conns |-> <<>>]
  /\ unified_response = [c \in Conns |-> <<>>]
  /\ next_output = [c \in Conns |-> 1]
  /\ frames = [c \in Conns |-> <<>>]
  /\ hist = [c \in Conns |-> InitHist]
  /\ fold_in = NoFold
  /\ fold_out = NoResult
  /\ parse_in = NoResponse
  /\ parse_out = NoResult
  /\ NoRuns

\* list.remove(x): drops the first occurrence
RECURSIVE Remove(_, _)
Remove(list, x) ==
  IF list = <<>> THEN <<>>
  ELSE IF Head(list) = x THEN Tail(list) ELSE <<Head(list)>> \o Remove(Tail(list), x)

InList(list, x) == \E i \in 1..Len(list) : list[i] = x

\* websocket.send_text goes through while the transport is open
CanSend(c) == transport[c] = "open"

\* the exception of a send or a receive on a closed transport: the framework
\* raises WebSocketDisconnect when the client is found gone, which marks the
\* WebSocket object closed, and RuntimeError for any call after that
TransportError(c) == IF hist[c].send_failed THEN "RuntimeError" ELSE "WebSocketDisconnect"

\* manager.send_message puts the frame on the wire
Push(c, frame) == [frames EXCEPT ![c] = Append(@, frame)]
Noted(h, c, frame) ==
  [h EXCEPT ![c].first_frame = IF @ = "" THEN frame.type ELSE @,
            ![c].map_defs = IF frame.type = "map_definition" THEN @ + 1 ELSE @]
\* an exception inside the inner try: control goes to except Exception
Raised(h, c, step, exc) ==
  [h EXCEPT ![c].raised = step, ![c].exc = exc,
            ![c].send_failed = IF step = "send" THEN TRUE ELSE @]

\* where an exception that leaves the while loop takes the handler:
\* except WebSocketDisconnect runs manager.disconnect, anything else ends
\* the handler with the exception
LoopExit(c, exc, h) ==
  IF exc = "WebSocketDisconnect"
  THEN /\ active_connections' = Remove(active_connections, c)
       /\ pc' = [pc EXCEPT ![c] = "done"]
       /\ hist' = [h EXCEPT ![c].disconnects = @ + 1]
  ELSE /\ pc' = [pc EXCEPT ![c] = "crashed"]
       /\ hist' = h
       /\ UNCHANGED active_connections

MapDefFrame == [type |-> "map_definition", content |-> "MapDefinition"]
EchoFrame(c) == [type |-> "user_message", content |-> PStr(user_message[c])]
DebugFrame(c) ==
  [type |-> "debug",
   content |-> [agent_response |-> agent_response[c],
                parsed_outputs |-> parsed_outputs[c],
                output_count |-> Len(parsed_outputs[c])]]
UnifiedFrame(c) == [type |-> "unified_response", content |-> unified_response[c]]
\* mutant: the failure is reported as a text frame
ErrorFrameAsText(c) ==
  [type |-> "text", content |-> PStr(<<"Error processing request: ", hist[c].exc>>)]

ErrorFrame(c) ==
  [type |-> "error", content |-> PStr(<<"Error processing request: ", hist[c].exc>>)]

\* mutant: the map definition is never found
NoMapDefinition == FALSE

\* if map_manager and map_manager.map_definition
HasMapDefinition == map_loaded

\* mutant: _run_agent_sync is called on the event loop
RunsInline == FALSE

\* AgentWrapper.run awaits loop.run_in_executor(None, self._run_agent_sync, ...):
\* the run is off the event loop
RunsInExecutor == TRUE

\* the event loop cannot run the handler of c while another handler holds it
\* in a call that does not await
LoopBusy(c) == \E d \in Conns \ {c} : pc[d] = "agent" /\ agent /\ ~RunsInExecutor

\* manager.connect: accept, then register
Connect(c) ==
  /\ pc[c] = "connect"
  /\ ~LoopBusy(c)
  /\ active_connections' = Append(active_connections, c)
  /\ pc' = [pc EXCEPT ![c] = IF HasMapDefinition THEN "mapdef" ELSE "recv"]
  /\ UNCHANGED <<agent, map_loaded, transport, received, user_message, agent_response,
                 parsed_outputs, unified_response, next_output, frames, hist, foldVars, parseVars,
                 streamVars>>

\* the map definition is sent once the connection is accepted; an exception
\* is printed and the handler goes on
SendMapDef(c) ==
  /\ pc[c] = "mapdef"
  /\ ~LoopBusy(c)
  /\ IF CanSend(c)
     THEN /\ frames' = Push(c, MapDefFrame)
          /\ hist' = Noted(hist, c, MapDefFrame)
     ELSE /\ hist' = [hist EXCEPT ![c].send_failed = TRUE]
          /\ UNCHANGED frames
  /\ pc' = [pc EXCEPT ![c] = "recv"]
  /\ UNCHANGED <<agent, map_loaded, active_connections, transport, received, user_message,
                 agent_response, parsed_outputs, unified_response, next_output, foldVars, parseVars,
                 streamVars>>

\* mutant: the next inbound frame is taken while the agent run is awaited
CanReceiveWhileAgent(c) == pc[c] \in {"recv", "agent"}

\* the handler may take the next inbound frame
CanReceive(c) == pc[c] = "recv"

\* receive_text, json.loads and message_data.get("message", "")
Receive(c) ==
  /\ CanReceive(c)
  /\ ~LoopBusy(c)
  /\ transport[c] = "open"
  /\ received[c] < MaxMsgs
  /\ \E data \in Inbound :
       /\ received' = [received EXCEPT ![c] = @ + 1]
       /\ frames' = [frames EXCEPT ![c] = <<>>]
       /\ agent_response' = [agent_response EXCEPT ![c] = NoResponse]
       /\ parsed_outputs' = [parsed_outputs EXCEPT ![c] = <<>>]
       /\ unified_response' = [unified_response EXCEPT ![c] = <<>>]
       /\ next_output' = [next_output EXCEPT ![c] = 1]
       /\ hist' = [hist EXCEPT ![c].raised = "", ![c].exc = "", ![c].agent_failed = FALSE,
                               ![c].invocations = 0, ![c].outcome = ""]
       /\ IF data.json
          THEN /\ user_message' = [user_message EXCEPT ![c] = Get(data, "message", <<>>)]
               /\ pc' = [pc EXCEPT ![c] = "echo"]
          ELSE /\ user_message' = [user_message EXCEPT ![c] = <<>>]
               /\ pc' = [pc EXCEPT ![c] = "crashed"]
  /\ UNCHANGED <<agent, map_loaded, active_connections, transport, foldVars, parseVars,
                 streamVars>>

\* receive_text on a closed transport raises
ReceiveDisconnect(c) ==
  /\ CanReceive(c)
  /\ ~LoopBusy(c)
  /\ transport[c] = "closed"
  /\ LoopExit(c, TransportError(c), hist)
  /\ UNCHANGED <<agent, map_loaded, transport, received, user_message, agent_response,
                 parsed_outputs, unified_response, next_output, frames, foldVars, parseVars,
                 streamVars>>

\* the echo is sent outside the inner try; then agent_wrapper.run is awaited
Echo(c) ==
  /\ pc[c] = "echo"
  /\ ~LoopBusy(c)
  /\ IF CanSend(c)
     THEN /\ frames' = Push(c, EchoFrame(c))
          /\ hist' = [Noted(hist, c, EchoFrame(c)) EXCEPT ![c].invocations = @ + 1,
                                                          ![c].in_flight = @ + 1]
          /\ pc' = [pc EXCEPT ![c] = "agent"]
          /\ UNCHANGED active_connections
     ELSE /\ LoopExit(c, TransportError(c), [hist EXCEPT ![c].send_failed = TRUE])
          /\ UNCHANGED frames
  /\ UNCHANGED <<agent, map_loaded, transport, received, user_message, agent_response,
                 parsed_outputs, unified_response, next_output, foldVars, parseVars,
                 streamVars>>

\* agent_wrapper.run returns, and output_parser.parse runs on what it returned
AgentReturn(c) ==
  /\ pc[c] = "agent"
  /\ ~LoopBusy(c)
  /\ \E o \in AgentOutcomes :
       LET resp == run(agent, user_message[c], o)
       IN  \E env \in Envs(resp) :
             LET r == parse(resp, env)
                 h == [hist EXCEPT ![c].in_flight = @ - 1,
                                   ![c].agent_failed = agent /\ o.kind = "raise"]
             IN  /\ agent_response' = [agent_response EXCEPT ![c] = resp]
                 /\ IF r.raised # ""
                    THEN /\ hist' = Raised(h, c, "parse", r.raised)
                         /\ pc' = [pc EXCEPT ![c] = "error"]
                         /\ UNCHANGED parsed_outputs
                    ELSE /\ hist' = h
                         /\ parsed_outputs' = [parsed_outputs EXCEPT ![c] = r.value]
                         /\ pc' = [pc EXCEPT ![c] = "debug"]
  /\ UNCHANGED <<agent, map_loaded, active_connections, transport, received, user_message,
                 unified_response, next_output, frames, foldVars, parseVars,
                 streamVars>>

\* the debug frame is sent, then generate_unified_response runs
SendDebug(c) ==
  /\ pc[c] = "debug"
  /\ ~LoopBusy(c)
  /\ IF CanSend(c)
     THEN LET u == generate_unified_response(agent_response[c], parsed_outputs[c])
          IN  /\ frames' = Push(c, DebugFrame(c))
              /\ IF u.raised # ""
                 THEN /\ hist' = Raised(Noted(hist, c, DebugFrame(c)), c, "aggregate", u.raised)
                      /\ pc' = [pc EXCEPT ![c] = "error"]
                      /\ UNCHANGED unified_response
                 ELSE /\ hist' = Noted(hist, c, DebugFrame(c))
                      /\ unified_response' = [unified_response EXCEPT ![c] = u.value]
                      /\ pc' = [pc EXCEPT ![c] = "unified"]
     ELSE /\ hist' = Raised(hist, c, "send", "transport")
          /\ pc' = [pc EXCEPT ![c] = "error"]
          /\ UNCHANGED <<frames, unified_response>>
  /\ UNCHANGED <<agent, map_loaded, active_connections, transport, received, user_message,
                 agent_response, parsed_outputs, next_output, foldVars, parseVars,
                 streamVars>>

\* the request is over: back to receive_text
Finished(h, c, outcome) == [h EXCEPT ![c].outcome = outcome]

SendUnified(c) ==
  /\ pc[c] = "unified"
  /\ ~LoopBusy(c)
  /\ IF CanSend(c)
     THEN /\ frames' = Push(c, UnifiedFrame(c))
          /\ IF parsed_outputs[c] = <<>>
             THEN /\ hist' = Finished(Noted(hist, c, UnifiedFrame(c)), c, "ok")
                  /\ pc' = [pc EXCEPT ![c] = "recv"]
             ELSE /\ hist' = Noted(hist, c, UnifiedFrame(c))
                  /\ pc' = [pc EXCEPT ![c] = "legacy"]
     ELSE /\ hist' = Raised(hist, c, "send", "transport")
          /\ pc' = [pc EXCEPT ![c] = "error"]
          /\ UNCHANGED frames
  /\ UNCHANGED <<agent, map_loaded, active_connections, transport, received, user_message,
                 agent_response, parsed_outputs, unified_response, next_output, foldVars, parseVars,
                 streamVars>>

\* mutant: the loop runs over parsed_outputs from the end
LegacyOutputReversed(c) ==
  parsed_outputs[c][Len(parsed_outputs[c]) + 1 - next_output[c]]

\* the output the loop over parsed_outputs is at
LegacyOutput(c) == parsed_outputs[c][next_output[c]]

\* one iteration of: for output in parsed_outputs: send_message(output)
SendLegacy(c) ==
  /\ pc[c] = "legacy"
  /\ ~LoopBusy(c)
  /\ IF CanSend(c)
     THEN LET output == LegacyOutput(c)
          IN  /\ frames' = Push(c, output)
              /\ IF next_output[c] = Len(parsed_outputs[c])
                 THEN /\ hist' = Finished(Noted(hist, c, output), c, "ok")
                      /\ pc' = [pc EXCEPT ![c] = "recv"]
                      /\ UNCHANGED next_output
                 ELSE /\ hist' = Noted(hist, c, output)
                      /\ next_output' = [next_output EXCEPT ![c] = @ + 1]
                      /\ UNCHANGED pc
     ELSE /\ hist' = Raised(hist, c, "send", "transport")
          /\ pc' = [pc EXCEPT ![c] = "error"]
          /\ UNCHANGED <<frames, next_output>>
  /\ UNCHANGED <<agent, map_loaded, active_connections, transport, received, user_message,
                 agent_response, parsed_outputs, unified_response, foldVars, parseVars,
                 streamVars>>

\* except Exception: the error frame is sent; an exception of this send
\* leaves the while loop
SendError(c) ==
  /\ pc[c] = "error"
  /\ ~LoopBusy(c)
  /\ IF CanSend(c)
     THEN /\ frames' = Push(c, ErrorFrame(c))
          /\ hist' = Finished(Noted(hist, c, ErrorFrame(c)), c, "error")
          /\ pc' = [pc EXCEPT ![c] = "recv"]
          /\ UNCHANGED active_connections
     ELSE /\ LoopExit(c, TransportError(c), [hist EXCEPT ![c].send_failed = TRUE])
          /\ UNCHANGED frames
  /\ UNCHANGED <<agent, map_loaded, transport, received, user_message, agent_response,
                 parsed_outputs, unified_response, next_output, foldVars, parseVars,
                 streamVars>>

\* the client goes away
ClientDisconnect(c) ==
  /\ pc[c] \notin {"connect", "done", "crashed"}
  /\ transport[c] = "open"
  /\ transport' = [transport EXCEPT ![c] = "closed"]
  /\ UNCHANGED <<agent, map_loaded, active_connections, pc, received, user_message,
                 agent_response, parsed_outputs, unified_response, next_output, frames,
                 hist, foldVars, parseVars,
                 streamVars>>

Next ==
  \E c \in Conns :
    \/ Connect(c)
    \/ SendMapDef(c)
    \/ Receive(c)
    \/ ReceiveDisconnect(c)
    \/ Echo(c)
    \/ AgentReturn(c)
    \/ SendDebug(c)
    \/ SendUnified(c)
    \/ SendLegacy(c)
    \/ SendError(c)
    \/ ClientDisconnect(c)

Spec == Init /\ [][Next]_vars

TypeOK == \A c \in Conns : pc[c] \in {"connect", "mapdef", "recv", "echo", "agent", "debug",
                                        "unified", "legacy", "error", "done", "crashed"}

\* ------------------------------------------------------------------------
\* generate_unified_response on its own: any event list, well formed or not
\* ------------------------------------------------------------------------
FullMap ==
  [floorId |-> "2F", timestamp |-> "2025-01-01 12:00:00",
   rectangles |-> <<[name |-> "Room3", color |-> "#ff0000"]>>, overlays |-> <<>>]

EventPool ==
  { [type |-> "text", content |-> PStr(<<"done">>)],
    [type |-> "text", content |-> PStr(<<"first">>)],
    [type |-> "text", content |-> PStr(<<>>)],
    [type |-> "text", content |-> PNone],
    [type |-> "text", content |-> PInt(5)],
    [type |-> "text"],
    [type |-> "error", content |-> PStr(<<"failed">>)],
    [type |-> "code", content |-> PStr(<<"x">>), step |-> <<"Step 1">>, language |-> <<"python">>],
    [type |-> "code", content |-> PStr(<<"y">>), language |-> <<"py">>],
    [type |-> "code"],
    [type |-> "image", content |-> PStr(<<"b64">>), format |-> <<"jpg">>, path |-> <<"a.jpg">>],
    [type |-> "image", content |-> PStr(<<"AAAA">>)],
    [type |-> "map", content |-> PDict(FullMap)],
    [type |-> "map", content |-> PDict(<<>>)],
    [type |-> "map", content |-> PNone],
    [type |-> "highlight_room", content |-> PDict([rooms |-> <<"Room1", "Room2">>])],
    [type |-> "highlight_room", content |-> PDict([rooms |-> <<>>])],
    [type |-> "highlight_room", content |-> PNone],
    [type |-> "highlight_room", content |-> PStr(<<"Room1">>)],
    [type |-> "highlight_room"],
    [type |-> "clear_map", content |-> PDict(<<>>)] }

\* the event lists of length at most n
RECURSIVE EventLists(_)
EventLists(n) ==
  IF n = 0 THEN {<<>>}
  ELSE {<<>>} \cup {<<e>> \o l : e \in EventPool, l \in EventLists(n - 1)}

\* agent_response: text not empty, text empty, no text key
FoldResponses ==
  { [text |-> <<"answer">>, raw_output |-> <<"answer">>],
    [text |-> <<>>, raw_output |-> <<>>],
    [raw_output |-> <<>>] }

InitFold ==
  /\ agent = FALSE
  /\ map_loaded = FALSE
  /\ active_connections = <<>>
  /\ transport = [c \in Conns |-> "open"]
  /\ pc = [c \in Conns |-> "connect"]
  /\ received = [c \in Conns |-> 0]
  /\ user_message = [c \in Conns |-> <<>>]
  /\ agent_response = [c \in Conns |-> NoResponse]
  /\ parsed_outputs = [c \in Conns |-> <<>>]
  /\ unified_response = [c \in Conns |-> <<>>]
  /\ next_output = [c \in Conns |-> 1]
  /\ frames = [c \in Conns |-> <<>>]
  /\ hist = [c \in Conns |-> InitHist]
  /\ fold_in \in [agent_response : FoldResponses, parsed_outputs : EventLists(MaxEvents)]
  /\ fold_out = [called |-> FALSE, raised |-> "", value |-> <<>>]
  /\ parse_in = NoResponse
  /\ parse_out = NoResult
  /\ NoRuns

\* one call of generate_unified_response
Aggregate ==
  /\ ~fold_out.called
  /\ fold_out' = [called |-> TRUE] @@
                 generate_unified_response(fold_in.agent_response, fold_in.parsed_outputs)
  /\ UNCHANGED <<fold_in, sessionVars, parseVars, streamVars>>

NextFold == Aggregate

SpecFold == InitFold /\ [][NextFold]_vars

\* ------------------------------------------------------------------------
\* parse on its own: raw outputs made of code blocks, of arrow commands and of
\* map commands
\* ------------------------------------------------------------------------
\* the sequences over S of length at most n
RECURSIVE TokenSeqs(_, _)
TokenSeqs(S, n) ==
  IF n = 0 THEN {<<>>}
  ELSE {<<>>} \cup {<<t>> \o l : t \in S, l \in TokenSeqs(S, n - 1)}

\* a fenced block: the opening fence with or without a language tag, the code
\* on its own line, the closing fence followed by text or by a newline
FencedBlockTexts ==
  {<<o>> \o b \o <<c>> : o \in Openers, b \in {<<"a", "\n">>, <<"b", "\n">>},
                         c \in {FenceEnd, FenceBare}}
\* a Code: label followed by an indented line
LabelledBlockTexts == {<<CodeLabel, Indent, "a", "\n">>}

\* the texts made of at most n blocks out of S, each followed by text or not
RECURSIVE BlockTexts(_, _)
BlockTexts(S, n) ==
  IF n = 0 THEN {<<>>}
  ELSE {<<>>} \cup {b \o t \o rest : b \in S, t \in {<<>>, <<"mid">>},
                                      rest \in BlockTexts(S, n - 1)}

\* the keys of the agent response besides raw_output: the text is the final
\* answer, or the raw output when the answer is empty
WithText(raw_output, texts) ==
  {[raw_output |-> raw_output, text |-> t] : t \in texts}
WithSteps(responses, steps) ==
  responses \cup {r @@ [code_steps |-> st] : r \in responses, st \in steps}

CodeInputs ==
  WithSteps(UNION {WithText(raw, {<<"done">>, raw}) :
                     raw \in BlockTexts(FencedBlockTexts \cup LabelledBlockTexts, MaxBlocks)},
            {<<>>, <<[code |-> <<"a">>, step |-> <<"Step 1">>]>>})

ArrowInputs ==
  WithSteps(UNION {WithText(raw, {<<"done">>}) :
                     raw \in TokenSeqs({ArrowTag, ArrowTagSideways, ArrowTagUpward,
                                        ArrowTagGarage, ArrowTagSpaced,
                                        DrawArrowCall, DrawArrowSideways}, MaxTags)},
            {<<[code |-> <<DrawArrowCall>>]>>, <<[code |-> <<DrawArrowSideways>>]>>,
             <<[code |-> <<DrawArrowCall, "w", DrawArrowCall>>]>>})

MapInputs ==
  UNION {WithText(raw, {<<"done">>, <<MapTagFloor1>>}) :
           raw \in TokenSeqs(MapTags, MaxTags)}

\* a malformed payload next to the signals of the other extractors
MalformedInputs ==
  WithSteps(UNION {WithText(raw, {<<"Kitchen">>}) :
                     raw \in TokenSeqs({MapTagBad, MapTagDeep, MapTagFlat, ClearMapTag,
                                        ArrowTag, ImgOnDisk}, MaxTags)},
            {<<[code |-> <<ClearArrowsCall>>]>>})

\* the string a call of show_map returned, printed to the raw output
ShowMapInputs ==
  UNION {WithText(show_map(call, timestamp), {<<"done">>}) :
           call \in ShowMapCalls, timestamp \in Timestamps}

\* signals of every kind, written in an order other than the extractors'
MixedInputs ==
  WithSteps(UNION {WithText(raw, {<<"Kitchen">>}) :
                     raw \in TokenSeqs({ClearMapTag, MapTagFlat, ClearArrowsTag, ArrowTag,
                                        ImgChart}, MaxTags)},
            {<<[code |-> <<ClearMapCall, ClearArrowsCall, DrawArrowCall, SaveFig>>]>>})

ClearInputs ==
  WithSteps(UNION {WithText(raw, {<<"done">>, <<ClearArrowsTag>>}) :
                     raw \in TokenSeqs({ClearArrowsTag, ClearMapTag, "w"}, MaxTags)},
            {<<[code |-> <<ClearArrowsCall, ClearArrowsCall>>]>>,
             <<[code |-> <<ClearMapCall>>], [code |-> <<"w">>], [code |-> <<ClearMapCall>>]>>})

ImageInputs ==
  WithSteps(UNION {WithText(raw, {<<"done">>}) :
                     raw \in TokenSeqs({ImgOnDisk, ImgChart, ImgMissing, ImgLong, ImgData},
                                       MaxTags)},
            {<<[code |-> <<SaveFig>>]>>})

InitParse ==
  /\ agent = FALSE
  /\ map_loaded = FALSE
  /\ active_connections = <<>>
  /\ transport = [c \in Conns |-> "open"]
  /\ pc = [c \in Conns |-> "connect"]
  /\ received = [c \in Conns |-> 0]
  /\ user_message = [c \in Conns |-> <<>>]
  /\ agent_response = [c \in Conns |-> NoResponse]
  /\ parsed_outputs = [c \in Conns |-> <<>>]
  /\ unified_response = [c \in Conns |-> <<>>]
  /\ next_output = [c \in Conns |-> 1]
  /\ frames = [c \in Conns |-> <<>>]
  /\ hist = [c \in Conns |-> InitHist]
  /\ fold_in = NoFold
  /\ fold_out = NoResult
  /\ parse_in \in CodeInputs \cup ArrowInputs \cup MapInputs \cup ClearInputs
                  \cup ImageInputs \cup MalformedInputs \cup ShowMapInputs
                  \cup MixedInputs
  /\ parse_out = NoResult
  /\ NoRuns

\* one call of parse; runs counts the calls made with this agent_response and
\* stat_raises keeps what the file system did, which is the same for every run
Extract ==
  /\ ~parse_out.called
  /\ \E env \in Envs(parse_in) :
       parse_out' = [called |-> TRUE, runs |-> 1, stat_raises |-> env.stat_raises]
                    @@ parse(parse_in, env)
  /\ UNCHANGED <<parse_in, sessionVars, foldVars, streamVars>>

\* a second call of parse with the same agent_response and the same files, in
\* this process or in another one: the set image_paths iterates in the order
\* the string hashes of the process give
ExtractAgain ==
  /\ parse_out.called /\ parse_out.runs = 1
  /\ \E env \in Envs(parse_in) :
       /\ env.stat_raises = parse_out.stat_raises
       /\ parse_out' = [called |-> TRUE, runs |-> 2, stat_raises |-> env.stat_raises]
                        @@ parse(parse_in, env)
  /\ UNCHANGED <<parse_in, sessionVars, foldVars, streamVars>>

\* the next step of the session: generate_unified_response on the
\* agent_response and on the list parse returned for it
Unify ==
  /\ parse_out.called /\ parse_out.raised = ""
  /\ ~fold_out.called
  /\ fold_in' = [agent_response |-> parse_in, parsed_outputs |-> parse_out.value]
  /\ fold_out' = [called |-> TRUE]
                  @@ generate_unified_response(parse_in, parse_out.value)
  /\ UNCHANGED <<parseVars, sessionVars, streamVars>>

NextParse == Extract \/ ExtractAgain \/ Unify

SpecParse == InitParse /\ [][NextParse]_vars

\* ------------------------------------------------------------------------
\* _run_agent_sync on its own: the runs of two connections in the threads
\* of the default executor, which may switch between any two statements
\* ------------------------------------------------------------------------
InitStreams ==
  /\ agent = TRUE
  /\ map_loaded = FALSE
  /\ active_connections = <<>>
  /\ transport = [c \in Conns |-> "open"]
  /\ pc = [c \in Conns |-> "connect"]
  /\ received = [c \in Conns |-> 0]
  /\ user_message = [c \in Conns |-> <<>>]
  /\ agent_response = [c \in Conns |-> NoResponse]
  /\ parsed_outputs = [c \in Conns |-> <<>>]
  /\ unified_response = [c \in Conns |-> <<>>]
  /\ next_output = [c \in Conns |-> 1]
  /\ frames = [c \in Conns |-> <<>>]
  /\ hist = [c \in Conns |-> InitHist]
  /\ fold_in = NoFold
  /\ fold_out = NoResult
  /\ parse_in = NoResponse
  /\ parse_out = NoResult
  /\ InitRuns

At(t, statement) == worker[t].at = statement
Goto(t, statement) == [worker EXCEPT ![t].at = statement]

\* old_stdout = sys.stdout
SaveStdout(t) ==
  /\ At(t, "save_stdout")
  /\ worker' = [Goto(t, "save_stderr") EXCEPT ![t].old_stdout = sys_stdout]
  /\ UNCHANGED <<sys_stdout, sys_stderr, capture, sessionVars, foldVars, parseVars>>

\* old_stderr = sys.stderr
SaveStderr(t) ==
  /\ At(t, "save_stderr")
  /\ worker' = [Goto(t, "set_stdout") EXCEPT ![t].old_stderr = sys_stderr]
  /\ UNCHANGED <<sys_stdout, sys_stderr, capture, sessionVars, foldVars, parseVars>>

\* sys.stdout = stdout_capture
SetStdout(t) ==
  /\ At(t, "set_stdout")
  /\ sys_stdout' = StdoutCapture(t)
  /\ worker' = Goto(t, "set_stderr")
  /\ UNCHANGED <<sys_stderr, capture, sessionVars, foldVars, parseVars>>

\* sys.stderr = stderr_capture
SetStderr(t) ==
  /\ At(t, "set_stderr")
  /\ sys_stderr' = StderrCapture(t)
  /\ worker' = Goto(t, "agent")
  /\ UNCHANGED <<sys_stdout, capture, sessionVars, foldVars, parseVars>>

\* what a write of run t to the stream leaves in the StringIO objects: the
\* output is marked with the run that wrote it
Written(stream, t) ==
  IF stream[1] = "stdout_capture"
  THEN [capture EXCEPT ![stream[2]].stdout = Append(@, t)]
  ELSE IF stream[1] = "stderr_capture"
       THEN [capture EXCEPT ![stream[2]].stderr = Append(@, t)]
       ELSE capture

\* self.agent.run(...): the agent and its tools print to sys.stdout
WriteStdout(t) ==
  /\ At(t, "agent")
  /\ worker[t].written < MaxWrites
  /\ capture' = Written(sys_stdout, t)
  /\ worker' = [worker EXCEPT ![t].written = @ + 1]
  /\ UNCHANGED <<sys_stdout, sys_stderr, sessionVars, foldVars, parseVars>>

\* self.agent.run(...): a warning or a log line goes to sys.stderr
WriteStderr(t) ==
  /\ At(t, "agent")
  /\ worker[t].written < MaxWrites
  /\ capture' = Written(sys_stderr, t)
  /\ worker' = [worker EXCEPT ![t].written = @ + 1]
  /\ UNCHANGED <<sys_stdout, sys_stderr, sessionVars, foldVars, parseVars>>

\* the loop over self.agent.run(...) ends; stdout_text = stdout_capture.getvalue()
ReadStdout(t) ==
  /\ At(t, "agent")
  /\ worker' = [Goto(t, "read_stderr") EXCEPT ![t].stdout_text = capture[t].stdout]
  /\ UNCHANGED <<sys_stdout, sys_stderr, capture, sessionVars, foldVars, parseVars>>

\* stderr_text = stderr_capture.getvalue(), and output_text, the raw_output
\* of the dict returned
ReadStderr(t) ==
  /\ At(t, "read_stderr")
  /\ worker' = [Goto(t, "restore_stdout") EXCEPT
                  ![t].stderr_text = capture[t].stderr,
                  ![t].raw_output =
                     worker[t].stdout_text
                     \o (IF capture[t].stderr # <<>>
                         THEN <<"\n[stderr]: ">> \o capture[t].stderr
                         ELSE <<>>)]
  /\ UNCHANGED <<sys_stdout, sys_stderr, capture, sessionVars, foldVars, parseVars>>

\* finally: sys.stdout = old_stdout
RestoreStdout(t) ==
  /\ At(t, "restore_stdout")
  /\ sys_stdout' = worker[t].old_stdout
  /\ worker' = Goto(t, "restore_stderr")
  /\ UNCHANGED <<sys_stderr, capture, sessionVars, foldVars, parseVars>>

\* finally: sys.stderr = old_stderr
RestoreStderr(t) ==
  /\ At(t, "restore_stderr")
  /\ sys_stderr' = worker[t].old_stderr
  /\ worker' = Goto(t, "done")
  /\ UNCHANGED <<sys_stdout, capture, sessionVars, foldVars, parseVars>>

NextStreams ==
  \E t \in Conns :
    \/ SaveStdout(t)
    \/ SaveStderr(t)
    \/ SetStdout(t)
    \/ SetStderr(t)
    \/ WriteStdout(t)
    \/ WriteStderr(t)
    \/ ReadStdout(t)
    \/ ReadStderr(t)
    \/ RestoreStdout(t)
    \/ RestoreStderr(t)

SpecStreams == InitStreams /\ [][NextStreams]_vars

\* ------------------------------------------------------------------------
\* Properties
\* ------------------------------------------------------------------------
Ended(c) == pc[c] \in {"done", "crashed"}
CountType(f, type) == Cardinality({i \in 1..Len(f) : f[i].type = type})
HasType(f, type) == \E i \in 1..Len(f) : f[i].type = type

\* C1: when the processing of an inbound message raised nothing, the frames
\* sent for it are the echo of the inbound text, one debug frame, one
\* unified_response frame and then the events parse extracted, one legacy frame
\* each and in extraction order, with nothing else in between; their number is
\* the output_count of the debug frame.
C1_FrameOrder ==
  \A c \in Conns :
    (pc[c] = "recv" /\ hist[c].outcome = "ok") =>
      LET f == frames[c]
      IN  /\ Len(f) >= 3
          /\ f[1].type = "user_message" /\ f[1].content = PStr(user_message[c])
          /\ f[2].type = "debug"
          /\ f[3].type = "unified_response"
          /\ Len(f) = 3 + f[2].content.output_count
          /\ \E env \in Envs(agent_response[c]) :
               LET r == parse(agent_response[c], env)
               IN  /\ r.raised = ""
                   /\ Len(r.value) = Len(f) - 3
                   /\ \A i \in 1..Len(r.value) :
                        f[3 + i].type = r.value[i].type /\ f[3 + i] = r.value[i]

\* a request that raised nothing ended with at least two different legacy frames
C1_Witness ==
  \E c \in Conns :
    /\ pc[c] = "recv" /\ hist[c].outcome = "ok"
    /\ Len(frames[c]) >= 5
    /\ frames[c][4].type # frames[c][5].type

\* the request the handler last took is over: all its frames, or the error
\* frame, are sent
RequestOver(c) ==
  \/ hist[c].outcome = "ok" /\ Len(frames[c]) = 3 + Len(parsed_outputs[c])
  \/ hist[c].outcome = "error" /\ frames[c] # <<>>
     /\ frames[c][Len(frames[c])].type = "error"

\* C2: a connection never has two agent runs in flight, and its handler takes
\* the next inbound frame only when no run is in flight and every frame of the
\* previous request (or its error frame) has been sent.
C2_Sequential ==
  /\ [](\A c \in Conns : hist[c].in_flight <= 1)
  /\ [][\A c \in Conns :
          received'[c] # received[c] =>
            hist[c].in_flight = 0 /\ (received[c] = 0 \/ RequestOver(c))]_vars

\* the second request of a connection has its agent run in flight
C2_Witness ==
  \E c \in Conns : received[c] = 2 /\ pc[c] = "agent" /\ hist[c].in_flight = 1

\* C3 as stated: whatever step of the request raised, once the handler has
\* dealt with it the client has exactly one error frame, the connection is
\* still registered and the handler awaits the next message.
C3_AnyStepOneErrorFrame ==
  \A c \in Conns :
    (hist[c].raised # "" /\ pc[c] # "error") =>
      /\ hist[c].outcome = "error"
      /\ CountType(frames[c], "error") = 1

\* C3 amended: when the agent run or the extraction raised and the client is
\* still there, the client has exactly one error frame, the last frame of the
\* request, the connection stays registered and the handler awaits the next
\* message; when a send of the debug, unified_response or legacy frame raised,
\* no error frame of the handler reaches the client and the handler ends.
C3_ErrorFrame ==
  \A c \in Conns :
    /\ (hist[c].raised \in {"parse", "aggregate"} /\ pc[c] # "error") =>
         IF hist[c].outcome = "error"
         THEN /\ CountType(frames[c], "error") = 1
              /\ frames[c][Len(frames[c])].type = "error"
              /\ hist[c].disconnects = 0 \/ Ended(c)
              /\ pc[c] = "recv" => InList(active_connections, c)
         ELSE /\ Ended(c) /\ transport[c] = "closed"
              /\ CountType(frames[c], "error") = 0
    /\ (hist[c].agent_failed /\ pc[c] = "recv" /\ hist[c].outcome = "ok") =>
         /\ CountType(frames[c], "error") = 1
         /\ InList(active_connections, c)
    /\ (hist[c].raised = "send" /\ pc[c] # "error") =>
         /\ Ended(c) /\ transport[c] = "closed"
         /\ hist[c].outcome = ""
         /\ \A i \in 1..Len(frames[c]) : frames[c][i] # ErrorFrame(c)

\* the extraction raised and the client got the error frame; the handler
\* awaits the next message
C3_Witness ==
  \E c \in Conns :
    /\ hist[c].raised = "parse" /\ hist[c].outcome = "error" /\ pc[c] = "recv"
    /\ frames[c][Len(frames[c])] = ErrorFrame(c)

\* C4: when a map definition was loaded, no connection is sent two
\* map_definition frames, no frame is sent before it, and once the handler is
\* past the initial send with the client still connected exactly one was sent.
C4_MapDefinitionFirst ==
  map_loaded =>
    \A c \in Conns :
      /\ hist[c].map_defs <= 1
      /\ hist[c].first_frame # "" =>
           hist[c].first_frame = "map_definition" /\ hist[c].map_defs = 1
      /\ (pc[c] \notin {"connect", "mapdef"} /\ transport[c] = "open") =>
           hist[c].map_defs = 1 /\ hist[c].first_frame = "map_definition"

\* a connection that got the map definition is through two requests
C4_Witness ==
  /\ map_loaded
  /\ \E c \in Conns :
       /\ hist[c].map_defs = 1 /\ received[c] = 2
       /\ HasType(frames[c], "user_message") /\ pc[c] = "recv"
       /\ hist[c].outcome = "ok"

\* C5 as stated: when the agent run failed and the request came to its end,
\* one unified_response was sent and its message is the text that reports the
\* failure; the handler awaits the next message.
C5_ErrorResponse ==
  \A c \in Conns :
    (hist[c].agent_failed /\ pc[c] = "recv" /\ hist[c].outcome # "") =>
      /\ hist[c].outcome = "ok"
      /\ CountType(frames[c], "unified_response") = 1
      /\ frames[c][3].type = "unified_response"
      /\ Len(frames[c][3].content) = 1
      /\ frames[c][3].content[1].message = PStr(agent_response[c].text)

\* C6 as stated, for a connection that has taken a request: once the client is
\* gone and the handler has ended, the connection was removed from the registry
\* exactly once and is not in it, and the request was run once.
C6_DeregisteredOnce ==
  \A c \in Conns :
    (transport[c] = "closed" /\ Ended(c) /\ received[c] >= 1) =>
      /\ hist[c].disconnects = 1
      /\ ~InList(active_connections, c)
      /\ hist[c].invocations <= 1

\* C7 as stated: when the floor plan could not be loaded, no connection gets a
\* map_definition frame, a map or highlight_room frame, or a unified response
\* with a 2d_map field.
C7_MapDisabled ==
  ~map_loaded =>
    \A c \in Conns :
      /\ hist[c].map_defs = 0
      /\ ~HasType(frames[c], "map")
      /\ ~HasType(frames[c], "highlight_room")
      /\ \A i \in 1..Len(frames[c]) :
           frames[c][i].type = "unified_response" =>
             \A k \in 1..Len(frames[c][i].content) :
               "2d_map" \notin DOMAIN frames[c][i].content[k]

\* C8: while the agent run of one connection is in flight, the handler of any
\* other connection can take its inbound frame and can send its echo, which
\* starts its own run.
C8_NoBlocking ==
  \A a \in Conns : \A b \in Conns \ {a} :
    (pc[a] = "agent" /\ agent) =>
      /\ (pc[b] = "recv" /\ transport[b] = "open" /\ received[b] < MaxMsgs) =>
           ENABLED Receive(b)
      /\ pc[b] = "echo" => ENABLED Echo(b)

\* two connections have their agent runs in flight at once
C8_Witness ==
  /\ agent
  /\ \A c \in Conns : pc[c] = "agent" /\ hist[c].in_flight = 1

\* C9 as stated: every call of generate_unified_response returns, raising
\* nothing, a list of one response whose agent field is smolAgent.
C9_NeverRaises ==
  fold_out.called =>
    /\ fold_out.raised = ""
    /\ Len(fold_out.value) = 1
    /\ fold_out.value[1].agent = "smolAgent"

\* the message the loop over the events leaves
FoldedMessage ==
  Fold([unified |-> [message |-> PStr(<<>>), agent |-> "smolAgent"], raised |-> ""],
       fold_in.parsed_outputs).unified.message

\* C10 as stated: when the fold leaves the message empty, the message returned
\* is the text of the agent response if that is not empty and the placeholder
\* if it is empty or absent; the message returned is never the empty string.
C10_MessageNeverEmpty ==
  (fold_out.called /\ fold_out.raised = "") =>
    LET text == Get(fold_in.agent_response, "text", <<>>)
    IN  /\ FoldedMessage = PStr(<<>>) =>
             fold_out.value[1].message =
               IF text # <<>> THEN PStr(text) ELSE PStr(Placeholder)
        /\ fold_out.value[1].message # PStr(<<>>)

\* ------------------------------------------------------------------------
\* The merge rules of generate_unified_response (SpecFold)
\* ------------------------------------------------------------------------
Events == fold_in.parsed_outputs
Returned == fold_out.called /\ fold_out.raised = ""
TypeAt(i) == Get(Events[i], "type", "")
ContentAt(i) == Get(Events[i], "content", PNone)
\* the state of the loop after its first i iterations
FoldUpTo(i) ==
  Fold([unified |-> [message |-> PStr(<<>>), agent |-> "smolAgent"], raised |-> ""],
       SubSeq(Events, 1, i))
\* event i is a text event and neither a text nor a code event follows it
LastTextNoCodeAfter(i) ==
  /\ TypeAt(i) = "text"
  /\ \A k \in (i + 1)..Len(Events) : TypeAt(k) \notin {"text", "code"}

\* C11 as stated: when no code event follows the last text event, the message
\* returned is the content of that text event, whatever string it is.
C11_LastTextWins ==
  Returned =>
    \A i \in 1..Len(Events) :
      (LastTextNoCodeAfter(i) /\ ContentAt(i).t = "str") =>
        fold_out.value[1].message = ContentAt(i)

\* C11 amended: folding a text event sets the message to its content,
\* replacing what the message held; when no code event follows the last text
\* event, the message returned is that content if it is not empty, and the
\* fallback agent_response.get("text", placeholder) if it is empty.
C11_TextOverwrites ==
  Returned =>
    \A i \in 1..Len(Events) :
      /\ TypeAt(i) = "text" => FoldUpTo(i).unified.message = ContentAt(i)
      /\ LastTextNoCodeAfter(i) =>
           fold_out.value[1].message =
             IF Truthy(ContentAt(i)) THEN ContentAt(i)
             ELSE PStr(Get(fold_in.agent_response, "text", Placeholder))

\* a second text event with another content replaced the message of the first
C11_Witness ==
  /\ Returned
  /\ \E i \in 1..Len(Events) : \E j \in (i + 1)..Len(Events) :
       /\ TypeAt(i) = "text" /\ Truthy(ContentAt(i)) /\ ContentAt(i).t = "str"
       /\ LastTextNoCodeAfter(j) /\ Truthy(ContentAt(j))
       /\ ContentAt(i) # ContentAt(j)
       /\ fold_out.value[1].message = ContentAt(j)

\* the fenced block of a code event: the fence, the language, the code on its
\* own line, the fence
FencedCode(i) ==
  <<FenceEnd>> \o Get(Events[i], "language", <<"python">>) \o <<"\n">>
  \o PyStr(ContentAt(i)) \o <<"\n", FenceEnd>>

\* C12: folding a code event onto a non-empty message keeps that message as a
\* prefix and appends a block labelled with the step tag of the event (N/A when
\* it has none) that holds the code; onto an empty message it makes the message
\* the heading "Code generated:" and a fenced block that holds only the code.
\* A code event that ends the list leaves that message as the one returned.
C12_CodeAppended ==
  Returned =>
    \A i \in 1..Len(Events) :
      TypeAt(i) = "code" =>
        LET before == FoldUpTo(i - 1).unified.message
            after == FoldUpTo(i).unified.message
        IN  /\ after.t = "str"
            /\ IF Truthy(before)
               THEN /\ before.t = "str"
                    /\ Len(after.s) > Len(before.s)
                    /\ SubSeq(after.s, 1, Len(before.s)) = before.s
                    /\ SubSeq(after.s, Len(before.s) + 1, Len(after.s)) =
                         <<"\n\n**Code (">> \o Get(Events[i], "step", <<"N/A">>)
                         \o <<")**:\n">> \o FencedCode(i)
               ELSE after.s = <<"Code generated:\n">> \o FencedCode(i)
            /\ i = Len(Events) => fold_out.value[1].message = after

\* a code event with a step tag was folded onto the message of a text event
C12_Witness ==
  /\ Returned
  /\ Len(Events) = 2
  /\ TypeAt(1) = "text" /\ Truthy(ContentAt(1))
  /\ TypeAt(2) = "code" /\ "step" \in DOMAIN Events[2]
  /\ Len(fold_out.value[1].message.s) > Len(ContentAt(1).s)

\* event i is a map event whose content is a dict
MapCommandAt(i) == TypeAt(i) = "map" /\ ContentAt(i).t = "dict"
\* event i is a highlight_room event with a non-empty room list
HighlightAt(i) ==
  /\ TypeAt(i) = "highlight_room" /\ ContentAt(i).t = "dict"
  /\ Get(ContentAt(i).d, "rooms", <<>>) # <<>>

\* C13: when the list holds a map event with a dict payload, the 2d_map
\* returned has the floor, timestamp, rectangles and overlays of the last such
\* event (1F, the empty text and empty lists for the keys the payload omits),
\* whatever highlight_room or earlier map events come before or after it.
C13_LastMapWins ==
  Returned =>
    \A i \in 1..Len(Events) :
      (MapCommandAt(i) /\ \A k \in (i + 1)..Len(Events) : ~MapCommandAt(k)) =>
        /\ "2d_map" \in DOMAIN fold_out.value[1]
        /\ LET m == fold_out.value[1]["2d_map"]
               d == ContentAt(i).d
           IN  /\ m.floor = IF "floorId" \in DOMAIN d THEN d.floorId ELSE "1F"
               /\ m.area.type = "map"
               /\ m.area.content.timestamp =
                    IF "timestamp" \in DOMAIN d THEN d.timestamp ELSE ""
               /\ m.area.content.rectangles =
                    IF "rectangles" \in DOMAIN d THEN d.rectangles ELSE <<>>
               /\ m.area.content.overlays =
                    IF "overlays" \in DOMAIN d THEN d.overlays ELSE <<>>

\* a highlight_room event with rooms came after a map event with rectangles,
\* and the 2d_map returned is that of the map event
C13_Witness ==
  /\ Returned
  /\ \E i \in 1..Len(Events) : \E j \in (i + 1)..Len(Events) :
       /\ MapCommandAt(i) /\ ContentAt(i).d = FullMap
       /\ HighlightAt(j)
       /\ fold_out.value[1]["2d_map"].floor = "2F"
       /\ fold_out.value[1]["2d_map"].area.content.rectangles = FullMap.rectangles

\* C14: a highlight_room event with rooms changes the response only when no map
\* event has set 2d_map before it; when it does, it sets 2d_map to floor 1F
\* with one rectangle per room, in the order of the list, in the highlight
\* colour and with showName true, and no overlays, and changes nothing else;
\* when a map event has set 2d_map, the event leaves the response as it was.
C14_HighlightIfUnset ==
  Returned =>
    \A i \in 1..Len(Events) :
      HighlightAt(i) =>
        LET before == FoldUpTo(i - 1).unified
            after == FoldUpTo(i).unified
            rooms == ContentAt(i).d.rooms
        IN  /\ (\E k \in 1..(i - 1) : MapCommandAt(k)) => after = before
            /\ "2d_map" \notin DOMAIN before => after # before
            /\ after # before =>
                 /\ \A k \in 1..(i - 1) : ~MapCommandAt(k)
                 /\ "2d_map" \notin DOMAIN before
                 /\ DOMAIN after = DOMAIN before \cup {"2d_map"}
                 /\ \A f \in DOMAIN before : after[f] = before[f]
                 /\ after["2d_map"].floor = "1F"
                 /\ after["2d_map"].area.type = "map"
                 /\ after["2d_map"].area.content.timestamp = ""
                 /\ after["2d_map"].area.content.overlays = <<>>
                 /\ LET rectangles == after["2d_map"].area.content.rectangles
                    IN  /\ Len(rectangles) = Len(rooms)
                        /\ \A k \in 1..Len(rooms) :
                             /\ rectangles[k].name = rooms[k]
                             /\ rectangles[k].color = "#0066ff"
                             /\ rectangles[k].showName = TRUE

\* a highlight_room event with two rooms was applied and the response has
\* their two rectangles, no map event being in the list
C14_Witness ==
  /\ Returned
  /\ \E i \in 1..Len(Events) :
       /\ HighlightAt(i) /\ Len(ContentAt(i).d.rooms) = 2
       /\ "2d_map" \notin DOMAIN FoldUpTo(i - 1).unified
       /\ \A k \in 1..Len(Events) : ~MapCommandAt(k)
       /\ Len(fold_out.value[1]["2d_map"].area.content.rectangles) = 2

\* the positions of the image events, in list order
RECURSIVE ImagePositions(_)
ImagePositions(i) ==
  IF i > Len(Events) THEN <<>>
  ELSE (IF TypeAt(i) = "image" THEN <<i>> ELSE <<>>) \o ImagePositions(i + 1)

\* C15: the images list returned has one entry per image event, in the order
\* of those events, each with the content of the event as data, its path as
\* title (the generic label when it has no path) and its format as type (png
\* when it has none); the images field is absent when there is no image event.
C15_ImagesInOrder ==
  Returned =>
    LET at == ImagePositions(1)
    IN  IF at = <<>> THEN "images" \notin DOMAIN fold_out.value[1]
        ELSE /\ "images" \in DOMAIN fold_out.value[1]
             /\ Len(fold_out.value[1].images) = Len(at)
             /\ \A k \in 1..Len(at) :
                  LET image == fold_out.value[1].images[k]
                      e == Events[at[k]]
                  IN  /\ image.data = ContentAt(at[k])
                      /\ image.title =
                           IF "path" \in DOMAIN e THEN e.path ELSE <<"Generated Image">>
                      /\ image.type =
                           IF "format" \in DOMAIN e THEN e.format ELSE <<"png">>

\* two different image events, one with a path and one without, are in the
\* images list in the order of the events
C15_Witness ==
  /\ Returned
  /\ Len(ImagePositions(1)) = 2
  /\ Events[ImagePositions(1)[1]] # Events[ImagePositions(1)[2]]
  /\ "path" \notin DOMAIN Events[ImagePositions(1)[1]]
  /\ Len(fold_out.value[1].images) = 2
  /\ fold_out.value[1].images[1].data # fold_out.value[1].images[2].data

\* the event list with every error event turned into a text event of the same
\* content
ErrorAsText(events) ==
  [i \in 1..Len(events) |->
     IF Get(events[i], "type", "") = "error"
     THEN [events[i] EXCEPT !.type = "text"]
     ELSE events[i]]

\* C16 as stated: the call returns for a list with error events what it
\* returns for the list with those events replaced by text events of the same
\* content.
C16_ErrorLikeText ==
  fold_out.called =>
    LET as_text == generate_unified_response(fold_in.agent_response, ErrorAsText(Events))
    IN  /\ fold_out.raised = as_text.raised
        /\ fold_out.value = as_text.value

\* ------------------------------------------------------------------------
\* The extractors of parse (SpecParse)
\* ------------------------------------------------------------------------
Extracted == parse_out.called /\ parse_out.raised = ""
RawOutput == Get(parse_in, "raw_output", <<>>)
TextContent == Get(parse_in, "text", <<>>)
CodeSteps == Get(parse_in, "code_steps", <<>>)
\* the events of one type in the result, in order
RECURSIVE OfType(_, _)
OfType(events, type) ==
  IF events = <<>> THEN <<>>
  ELSE (IF Head(events).type = type THEN <<Head(events)>> ELSE <<>>)
       \o OfType(Tail(events), type)
NoFenceIn(text) == \A i \in 1..Len(text) : text[i] \notin Fences

\* the code texts of code_steps
StepCodes == {Get(CodeSteps[i], "code", <<>>) : i \in 1..Len(CodeSteps)}
\* the trimmed code texts of the blocks of raw_output: fenced with or without
\* a language tag, or after a Code: label
RawCodes ==
  {Strip(FencedBlocks(RawOutput)[i].code) : i \in 1..Len(FencedBlocks(RawOutput))}
  \cup {Strip(LabelledBlocks(RawOutput)[i]) : i \in 1..Len(LabelledBlocks(RawOutput))}

\* C17 as stated: a code text that is both in code_steps and in a block of
\* raw_output comes out as exactly one code event (the text of the response
\* holding no block of its own).
C17_OneEventPerCode ==
  (Extracted /\ NoFenceIn(TextContent)) =>
    \A code \in StepCodes \cap RawCodes :
      Cardinality({i \in 1..Len(parse_out.value) :
                     /\ parse_out.value[i].type = "code"
                     /\ parse_out.value[i].content = PStr(code)}) = 1

\* C18 as stated: for a raw output made of fenced blocks with or without text
\* between them, no code_steps and a text without blocks, the code events are
\* the trimmed bodies of the blocks, one event per block and in their order.
C18_OneEventPerBlock ==
  (/\ Extracted
   /\ CodeSteps = <<>>
   /\ NoFenceIn(TextContent)
   /\ RawOutput \in BlockTexts(FencedBlockTexts, MaxBlocks)) =>
    LET blocks == FencedBlocks(RawOutput)
        events == OfType(parse_out.value, "code")
    IN  /\ Len(events) = Len(blocks)
        /\ \A i \in 1..Len(blocks) : events[i].content = PStr(Strip(blocks[i].code))

\* the arrow commands of the input: in the code of code_steps, in raw_output
\* and in the text
ArrowCommands ==
  {t \in {ArrowTag, ArrowTagSideways, ArrowTagUpward, ArrowTagGarage, ArrowTagSpaced,
          DrawArrowCall, DrawArrowSideways} :
     \/ Contains(Combined(RawOutput, TextContent), t)
     \/ \E i \in 1..Len(CodeSteps) : Contains(Get(CodeSteps[i], "code", <<>>), t)}

\* C19 as stated: every arrow event has the direction up, down, left or right,
\* and when no command of the input has one of these four as its direction, in
\* any case, there is no arrow event.
C19_ArrowDirections ==
  Extracted =>
    LET events == OfType(parse_out.value, "arrow")
    IN  /\ \A i \in 1..Len(events) :
             events[i].content.d.direction \in {"up", "down", "left", "right"}
        /\ ArrowCommands \cap {ArrowTag, ArrowTagGarage, ArrowTagSpaced, DrawArrowCall} = {}
             => events = <<>>

\* the payloads of the MAP_COMMAND tags of raw_output and the text, in order
RECURSIVE TagPayloads(_)
TagPayloads(s) ==
  IF s = <<>> THEN <<>>
  ELSE (IF Head(s) \in MapTags THEN <<Payload(Head(s))>> ELSE <<>>) \o TagPayloads(Tail(s))

\* C20 as stated: there is at most one map event, and when the payload of the
\* last MAP_COMMAND tag is well-formed JSON there is one, whose content is that
\* JSON, with or without rectangles.
C20_LastMapTag ==
  Extracted =>
    LET payloads == TagPayloads(Combined(RawOutput, TextContent))
        events == OfType(parse_out.value, "map")
    IN  /\ Len(events) <= 1
        /\ (payloads # <<>> /\ JsonLoads(payloads[Len(payloads)]).raised = "") =>
             /\ Len(events) = 1
             /\ events[1].content = PDict(JsonLoads(payloads[Len(payloads)]).value)

\* where a marker occurs: <<0, i>> for the tag at place i of raw_output and
\* the text, <<k, i>> for the call at place i of the code of step k
MarkerPlaces(tag, call) ==
  {<<0, i>> : i \in {j \in 1..Len(Combined(RawOutput, TextContent)) :
                       Combined(RawOutput, TextContent)[j] = tag}}
  \cup UNION {{<<k, i>> : i \in {j \in 1..Len(Get(CodeSteps[k], "code", <<>>)) :
                                   Get(CodeSteps[k], "code", <<>>)[j] = call}} :
                k \in 1..Len(CodeSteps)}
ClearArrowsPlaces == MarkerPlaces(ClearArrowsTag, ClearArrowsCall)
ClearMapPlaces == MarkerPlaces(ClearMapTag, ClearMapCall)

\* C21: however many times the markers occur, one extraction emits one
\* clear_arrows event when a clear_arrows() call of code_steps or a
\* CLEAR_ARROWS_COMMAND tag occurs and none otherwise, and one clear_map event
\* when a clear_map() call or a CLEAR_MAP_COMMAND tag occurs and none otherwise.
C21_ClearOnce ==
  Extracted =>
    /\ Len(OfType(parse_out.value, "clear_arrows")) =
         IF ClearArrowsPlaces # {} THEN 1 ELSE 0
    /\ Len(OfType(parse_out.value, "clear_map")) =
         IF ClearMapPlaces # {} THEN 1 ELSE 0

\* both markers occur more than once, in code_steps and in the raw output and
\* the text, and the result holds one event of each kind
C21_Witness ==
  /\ Extracted
  /\ Cardinality(ClearArrowsPlaces) >= 3
  /\ Cardinality(ClearMapPlaces) >= 2
  /\ \E p \in ClearArrowsPlaces : p[1] = 0
  /\ \E p \in ClearArrowsPlaces : p[1] > 0
  /\ Len(OfType(parse_out.value, "clear_arrows")) = 1
  /\ Len(OfType(parse_out.value, "clear_map")) = 1

\* C22 as stated: a second run of parse on the same agent response with the
\* same files on disk returns what the first run returned, the image events in
\* the same order, and so the unified response built from it is the same.
C22_Deterministic ==
  [][(parse_out.called /\ parse_out'.called) =>
       /\ parse_out'.raised = parse_out.raised
       /\ parse_out'.value = parse_out.value
       /\ generate_unified_response(parse_in, parse_out'.value) =
            generate_unified_response(parse_in, parse_out.value)]_vars

\* C23 as stated: no two arrow events of one extraction have the same room and
\* the same direction.
C23_NoDuplicateArrows ==
  Extracted =>
    LET events == OfType(parse_out.value, "arrow")
    IN  \A i \in 1..Len(events) : \A j \in 1..Len(events) :
          (/\ events[i].content.d.room = events[j].content.d.room
           /\ events[i].content.d.direction = events[j].content.d.direction) => i = j

\* the registry of room names
RoomRegistry == {room_names[i] : i \in 1..Len(room_names)}

\* C24 as stated: every room name of a highlight_room event and of an arrow
\* event is in the registry of room names.
C24_RoomsInRegistry ==
  Extracted =>
    \A i \in 1..Len(parse_out.value) :
      LET e == parse_out.value[i]
      IN  /\ e.type = "highlight_room" =>
               \A k \in 1..Len(e.content.d.rooms) : e.content.d.rooms[k] \in RoomRegistry
          /\ e.type = "arrow" => e.content.d.room \in RoomRegistry

\* the captured payloads of raw_output and the text, in order
MapPayloadsFound == MapMatches(Combined(RawOutput, TextContent))
\* the payload extraction selects is not JSON
MalformedSelected ==
  /\ MapPayloadsFound # <<>>
  /\ JsonLoads(MapPayloadsFound[Len(MapPayloadsFound)]).raised # ""

\* C25 as stated: when the selected MAP_COMMAND payload is malformed JSON,
\* parse raises nothing, returns no map event, and returns the events of the
\* other extractors, the clear_map event among them.
C25_MalformedMapSkipped ==
  (parse_out.called /\ MalformedSelected) =>
    /\ parse_out.raised = ""
    /\ OfType(parse_out.value, "map") = <<>>
    /\ OfType(parse_out.value, "arrow")
         = _extract_arrows(RawOutput, TextContent, parse_in)
    /\ OfType(parse_out.value, "clear_arrows")
         = _extract_clear_arrows(RawOutput, TextContent, parse_in)
    /\ OfType(parse_out.value, "clear_map")
         = _extract_clear_map_command(RawOutput, TextContent, parse_in)
    /\ Len(OfType(parse_out.value, "text")) = 1

\* C30 as stated: the string a show_map call returned, fed to extraction as
\* raw output, gives exactly one map event, whose content is the command the
\* call built.
C30_ShowMapRoundTrip ==
  \A call \in ShowMapCalls, timestamp \in Timestamps :
    (parse_out.called /\ RawOutput = show_map(call, timestamp)) =>
      /\ parse_out.raised = ""
      /\ OfType(parse_out.value, "map")
           = <<[type |-> "map", content |-> PDict(map_command(call, timestamp))]>>

\* the place of a kind of event in the extractor order of parse
KindRank(type) ==
  CASE type = "code" -> 1
    [] type = "image" -> 2
    [] type = "highlight_room" -> 3
    [] type = "arrow" -> 4
    [] type = "clear_arrows" -> 5
    [] type = "map" -> 6
    [] type = "clear_map" -> 7
    [] OTHER -> 0
SignalKinds ==
  {"code", "image", "highlight_room", "arrow", "clear_arrows", "map", "clear_map"}

\* C26: in the list parse returns, the events are grouped by kind in the
\* extractor order: code, image, highlight_room, arrow, clear_arrows, map,
\* clear_map, wherever their signals were written.
C26_ExtractorOrder ==
  Extracted =>
    \A i, j \in 1..Len(parse_out.value) :
      (i < j /\ parse_out.value[i].type \in SignalKinds
             /\ parse_out.value[j].type \in SignalKinds) =>
        KindRank(parse_out.value[i].type) <= KindRank(parse_out.value[j].type)

\* every kind is present, and the signals were written in another order: the
\* clear_map tag before the map tag, the calls of the step in reverse order
C26_Witness ==
  /\ Extracted
  /\ {parse_out.value[i].type : i \in 1..Len(parse_out.value)}
       = SignalKinds \cup {"text"}
  /\ RawOutput = <<ClearMapTag, MapTagFlat>>

\* C27: in the pipeline of parse and generate_unified_response, when the
\* agent's text is not empty and the error flag is not set, the call returns
\* and the message of the unified response is the agent's text, whatever code
\* events parse extracted before the text event.
C27_MessageIsText ==
  (/\ fold_out.called
   /\ Get(fold_in.agent_response, "text", <<>>) # <<>>
   /\ ~ErrorFlag(fold_in.agent_response)) =>
     /\ fold_out.raised = ""
     /\ fold_out.value[1].message = PStr(fold_in.agent_response.text)

\* two code events were folded ahead of the text event, whose content is
\* the message
C27_Witness ==
  /\ fold_out.called /\ fold_out.raised = ""
  /\ Len(OfType(fold_in.parsed_outputs, "code")) >= 2
  /\ Len(OfType(fold_in.parsed_outputs, "text")) = 1
  /\ ~ErrorFlag(fold_in.agent_response)
  /\ fold_out.value[1].message = PStr(fold_in.agent_response.text)

\* the handler of c was entered and has not ended
Running(c) == pc[c] \notin {"connect", "done", "crashed"}

\* C28 as stated: the registry holds exactly the connections whose handler
\* is still running; however the handler ends, the connection is removed.
C28_RegistryIsRunning ==
  \A c \in Conns : InList(active_connections, c) <=> Running(c)

\* every run has returned
AllReturned == \A t \in Conns : worker[t].at = "done"
\* the runs whose output a raw_output holds
WritersIn(raw_output) ==
  {raw_output[i] : i \in 1..Len(raw_output)} \ {"\n[stderr]: "}

\* C29 as stated: once the runs started by the connections have all
\* returned, sys.stdout and sys.stderr are the original streams again and the
\* raw_output of each run holds only what that run wrote.
C29_StreamsRestored ==
  AllReturned =>
    /\ sys_stdout = Original
    /\ sys_stderr = Original
    /\ \A t \in Conns : WritersIn(worker[t].raw_output) \subseteq {t}

====
